---- MODULE Spec2Model ----
(***************************************************************************)
(* Shift scheduling for a control centre: the Schedule / Worker state      *)
(* containers (core/schedule.py, core/worker.py), the constraint rules and  *)
(* the validator (core/constraints.py), the compensation calculator        *)
(* (utils/compensation.py) and the mutation steps of the generation         *)
(* pipeline (algorithms/generator.py).                                      *)
(*                                                                         *)
(* A date is the number of days since 2025-01-01, the epoch that            *)
(* core/constraints.py itself uses for its timeline positions.  Money is    *)
(* counted in eighths of the base rate, so that every compensation factor   *)
(* of the rate table (1.0, 1.5, 2.0, 2.5 and 2.5 * 1.25 = 3.125) is an      *)
(* integer; the Python floats involved are dyadic and their sums are exact. *)
(***************************************************************************)
EXTENDS Integers, Sequences, FiniteSets, TLC

VARIABLES
    pc,          \* "new": Schedule(...) not called yet; "ready": built; "raised": the constructor raised
    error,       \* message of the ValueError the constructor raised, "" when none
    start_date,  \* Schedule.start_date
    end_date,    \* Schedule.end_date
    workers,     \* Schedule.workers, the roster
    days,        \* Schedule.days / _day_cache: date -> shift type -> slot
    shifts,      \* Worker.shifts, per worker: list of <<date, shift type>>
    earnings,    \* Worker.earnings, per worker
    days_off,    \* Worker.days_off, per worker
    last,        \* the last call made and what it returned
    calls,       \* number of calls made so far
    unchecked,   \* an assign_worker call was made for a worker already holding a shift that day
    stage,       \* position of generate_schedule in its pipeline
    cursor,      \* position of the loop of generate_remaining_shifts_proactive
    date_index   \* the dict create_date_index returned: date -> day record, by reference

vars == <<pc, error, start_date, end_date, workers, days, shifts, earnings,
          days_off, last, calls, unchecked, stage, cursor, date_index>>

\* None, where an id or a date is expected: ids start at 1 and dates are >= 0 in use
None == 0

(***************************************************************************)
(* Configuration: config/settings.py                                       *)
(***************************************************************************)
SHIFT_TYPES == <<"Manana", "Tarde", "Noche">>

ShiftTypeSet == {SHIFT_TYPES[i] : i \in 1..Len(SHIFT_TYPES)}

TECHS_PER_SHIFT == [s \in ShiftTypeSet |->
                      IF s = "Noche" THEN 2 ELSE 5]

ENG_PER_SHIFT == 1

\* COMPENSATION_RATES, in eighths
COMPENSATION_RATES ==
    [DIURNO |-> 8, NOCTURNO |-> 12,
     FIN_DE_SEMANA_DIURNO |-> 16, FIN_DE_SEMANA_NOCTURNO |-> 20]

\* COLOMBIAN_HOLIDAYS_2025 ("%m-%d" strings) as day offsets within 2025
COLOMBIAN_HOLIDAYS_2025 ==
    {0, 5, 82, 106, 107, 120, 152, 173, 180, 187, 200, 218, 229, 285, 306,
     320, 341, 358}

is_colombian_holiday(date) == date \in COLOMBIAN_HOLIDAYS_2025

\* datetime.weekday(): Monday = 0; 2025-01-01 is a Wednesday
weekday(date) == (date + 2) % 7

(***************************************************************************)
(* Bounds of the model                                                     *)
(***************************************************************************)
FirstDay == 2          \* first day of the period: 2025-01-03, a Friday
NumDays == 1           \* length of the period
MaxCalls == 3          \* calls a client makes on one schedule
NumEngs == 2           \* engineers in the roster
PipeDays == 7          \* longest period generate_schedule is run on
PipeEngs == 5          \* engineers in the roster generate_schedule is run on

LastDay == FirstDay + NumDays - 1

(***************************************************************************)
(* Workers: core/worker.py                                                 *)
(***************************************************************************)
Technologist(i) == [id |-> i, is_technologist |-> TRUE]
Engineer(i) == [id |-> i, is_technologist |-> FALSE]

\* main.py creates ids 1..NUM_TECHNOLOGISTS and 1..NUM_ENGINEERS
TechPool(n) == {Technologist(i) : i \in 1..n}
EngPool(n) == {Engineer(i) : i \in 1..n}

\* one technologist more than a night shift requires
WideTechs == TECHS_PER_SHIFT["Noche"] + 1

\* every Worker object that exists
Workers == TechPool(WideTechs) \cup EngPool(NumEngs) \cup EngPool(PipeEngs)

InSeq(x, seq) == \E i \in 1..Len(seq) : seq[i] = x

\* list.remove(x): drops the first occurrence
RECURSIVE RemoveFirst(_, _)
RemoveFirst(seq, x) ==
    IF seq = <<>> THEN <<>>
    ELSE IF Head(seq) = x THEN Tail(seq)
    ELSE <<Head(seq)>> \o RemoveFirst(Tail(seq), x)

\* [(d, s) for d, s in worker.shifts if not (d == date and s == shift_type)]
RECURSIVE WithoutShift(_, _, _)
WithoutShift(seq, date, shift_type) ==
    IF seq = <<>> THEN <<>>
    ELSE IF Head(seq) = <<date, shift_type>>
         THEN WithoutShift(Tail(seq), date, shift_type)
         ELSE <<Head(seq)>> \o WithoutShift(Tail(seq), date, shift_type)

(***************************************************************************)
(* Compensation: utils/compensation.py                                     *)
(***************************************************************************)
\* a holiday on a weekend paid at the plain weekend rate
calculate_compensation_no_stacking(date, shift_type) ==
    LET is_weekend == weekday(date) >= 5
        is_night == (shift_type = "Noche")
    IN  IF is_weekend \/ is_colombian_holiday(date)
        THEN IF is_night THEN COMPENSATION_RATES.FIN_DE_SEMANA_NOCTURNO
             ELSE COMPENSATION_RATES.FIN_DE_SEMANA_DIURNO
        ELSE IF is_night THEN COMPENSATION_RATES.NOCTURNO ELSE COMPENSATION_RATES.DIURNO

calculate_compensation(date, shift_type) ==
    LET is_weekend == weekday(date) >= 5
        is_night == (shift_type = "Noche")
        base_rate ==
            IF is_weekend /\ is_night THEN COMPENSATION_RATES.FIN_DE_SEMANA_NOCTURNO
            ELSE IF is_weekend THEN COMPENSATION_RATES.FIN_DE_SEMANA_DIURNO
            ELSE IF is_night THEN COMPENSATION_RATES.NOCTURNO
            ELSE COMPENSATION_RATES.DIURNO
    IN  IF is_colombian_holiday(date)
        THEN IF is_weekend THEN (base_rate * 5) \div 4
             ELSE IF is_night THEN COMPENSATION_RATES.FIN_DE_SEMANA_NOCTURNO
                  ELSE COMPENSATION_RATES.FIN_DE_SEMANA_DIURNO
        ELSE base_rate

(***************************************************************************)
(* The mutable state as one value, so that a method is a function from     *)
(* state to state and result.                                              *)
(***************************************************************************)
Live == [days |-> days, shifts |-> shifts, earnings |-> earnings,
         days_off |-> days_off, raised |-> FALSE]

Result(ret, raised, st) == [ret |-> ret, raised |-> raised, st |-> st]

\* Worker.add_shift
add_shift(S, worker, date, shift_type) ==
    [S EXCEPT !.shifts[worker] = Append(@, <<date, shift_type>>),
              !.earnings[worker] = @ + calculate_compensation(date, shift_type)]

(***************************************************************************)
(* Schedule: core/schedule.py                                              *)
(***************************************************************************)
EmptyDay == [s \in ShiftTypeSet |-> [technologists |-> <<>>, engineer |-> None]]

\* the loop over date_range(start_date, end_date) in Schedule.__init__
NewDays(start, end) == [d \in start..end |-> EmptyDay]

\* ScheduleInit with the date validation written as start_date >= end_date
ScheduleInit_strict(start, end, roster) ==
    IF start >= end
    THEN [raised |-> TRUE,
          error |-> "La fecha de inicio debe ser anterior o igual a la fecha de fin",
          days |-> <<>>]
    ELSE IF roster = {}
    THEN [raised |-> TRUE,
          error |-> "Debe proporcionar al menos un trabajador",
          days |-> <<>>]
    ELSE [raised |-> FALSE, error |-> "", days |-> NewDays(start, end)]

\* Schedule.__init__: the two validations, in the order of the source
ScheduleInit(start, end, roster) ==
    IF start > end
    THEN [raised |-> TRUE,
          error |-> "La fecha de inicio debe ser anterior o igual a la fecha de fin",
          days |-> <<>>]
    ELSE IF roster = {}
    THEN [raised |-> TRUE,
          error |-> "Debe proporcionar al menos un trabajador",
          days |-> <<>>]
    ELSE [raised |-> FALSE, error |-> "", days |-> NewDays(start, end)]

\* assign_worker that registers the shift on the worker before it looks the
\* date up
assign_worker_registers_first(S, worker, date, shift_type) ==
    IF shift_type \notin ShiftTypeSet
    THEN Result(FALSE, TRUE, S)
    ELSE LET S0 == add_shift(S, worker, date, shift_type) IN
         IF date \notin DOMAIN S.days
         THEN Result(FALSE, FALSE, S0)
         ELSE IF worker.is_technologist
              THEN IF InSeq(worker.id, S.days[date][shift_type].technologists)
                   THEN Result(FALSE, FALSE, S)
                   ELSE Result(TRUE, FALSE,
                          [S0 EXCEPT !.days[date][shift_type].technologists =
                                        Append(@, worker.id)])
              ELSE Result(TRUE, FALSE,
                          [S0 EXCEPT !.days[date][shift_type].engineer = worker.id])

\* assign_worker without the duplicate check on the technologist list
assign_worker_no_duplicate_check(S, worker, date, shift_type) ==
    IF shift_type \notin ShiftTypeSet
    THEN Result(FALSE, TRUE, S)
    ELSE IF date \notin DOMAIN S.days
    THEN Result(FALSE, FALSE, S)
    ELSE IF worker.is_technologist
         THEN Result(TRUE, FALSE,
                     add_shift([S EXCEPT !.days[date][shift_type].technologists =
                                            Append(@, worker.id)],
                               worker, date, shift_type))
         ELSE Result(TRUE, FALSE,
                     add_shift([S EXCEPT !.days[date][shift_type].engineer = worker.id],
                               worker, date, shift_type))

\* Schedule.assign_worker
assign_worker(S, worker, date, shift_type) ==
    IF shift_type \notin ShiftTypeSet
    THEN Result(FALSE, TRUE, S)                      \* raise ValueError
    ELSE IF date \notin DOMAIN S.days
    THEN Result(FALSE, FALSE, S)                     \* date outside the schedule
    ELSE LET shift_data == S.days[date][shift_type] IN
         IF worker.is_technologist
         THEN IF InSeq(worker.id, shift_data.technologists)
              THEN Result(FALSE, FALSE, S)           \* duplicate avoided
              ELSE Result(TRUE, FALSE,
                     add_shift([S EXCEPT !.days[date][shift_type].technologists =
                                            Append(@, worker.id)],
                               worker, date, shift_type))
         ELSE Result(TRUE, FALSE,
                     add_shift([S EXCEPT !.days[date][shift_type].engineer = worker.id],
                               worker, date, shift_type))

\* remove_worker_from_shift that leaves worker.shifts alone
remove_worker_from_shift_keeps_entry(S, worker, date, shift_type) ==
    IF date \notin DOMAIN S.days
    THEN Result(FALSE, FALSE, S)
    ELSE IF shift_type \notin ShiftTypeSet
    THEN Result(FALSE, TRUE, S)
    ELSE LET shift_data == S.days[date][shift_type] IN
         IF worker.is_technologist
         THEN IF InSeq(worker.id, shift_data.technologists)
              THEN Result(TRUE, FALSE,
                          [S EXCEPT !.days[date][shift_type].technologists =
                                       RemoveFirst(@, worker.id)])
              ELSE Result(FALSE, FALSE, S)
         ELSE IF shift_data.engineer = worker.id
              THEN Result(TRUE, FALSE,
                          [S EXCEPT !.days[date][shift_type].engineer = None])
              ELSE Result(FALSE, FALSE, S)

\* Schedule.remove_worker_from_shift
remove_worker_from_shift(S, worker, date, shift_type) ==
    IF date \notin DOMAIN S.days
    THEN Result(FALSE, FALSE, S)
    ELSE IF shift_type \notin ShiftTypeSet
    THEN Result(FALSE, TRUE, S)                      \* KeyError on day_data["shifts"][shift_type]
    ELSE LET shift_data == S.days[date][shift_type]
             removed == IF worker.is_technologist
                        THEN InSeq(worker.id, shift_data.technologists)
                        ELSE shift_data.engineer = worker.id
             S1 == IF worker.is_technologist
                   THEN [S EXCEPT !.days[date][shift_type].technologists =
                                     RemoveFirst(@, worker.id)]
                   ELSE [S EXCEPT !.days[date][shift_type].engineer = None]
         IN  IF removed
             THEN Result(TRUE, FALSE,
                         [S1 EXCEPT !.shifts[worker] = WithoutShift(@, date, shift_type)])
             ELSE Result(FALSE, FALSE, S)

(***************************************************************************)
(* Inputs of the calls, and the record of a call                           *)
(***************************************************************************)
\* dates a caller may pass: the period and the day after it
DateInputs == FirstDay..(LastDay + 1)

\* what a call on (worker, date, shift_type) can touch, as seen in state S
View(S, worker, date, shift_type) ==
    [slot |-> IF date \in DOMAIN S.days THEN S.days[date][shift_type]
              ELSE [technologists |-> <<>>, engineer |-> None],
     shifts |-> S.shifts[worker],
     earnings |-> S.earnings[worker]]

NoCall == [op |-> "none", args |-> <<>>, ret |-> FALSE, raised |-> FALSE,
           follows |-> FALSE]

\* a call, what it returned and what it found before it ran; follows: the call
\* comes right after a successful assign_worker with the same arguments, and
\* then pre0 is what that assign_worker found before it ran
Call(op, args, r, S) ==
    LET pre == View(S, args[1], args[2], args[3])
        follows == last.op = "assign" /\ last.ret /\ last.args = args
    IN  [op |-> op, args |-> args, ret |-> r.ret, raised |-> r.raised,
         pre |-> pre, follows |-> follows,
         pre0 |-> IF follows THEN last.pre ELSE pre]

Commit(S) ==
    /\ days' = S.days
    /\ shifts' = S.shifts
    /\ earnings' = S.earnings
    /\ days_off' = S.days_off

Record(c) ==
    /\ calls < MaxCalls
    /\ calls' = calls + 1
    /\ last' = c

(***************************************************************************)
(* The date index: algorithms/common.py                                    *)
(***************************************************************************)
\* no index was created
NoIndex == <<>>

\* a reference to the day record Schedule.__init__ created for the date and
\* keeps in days and _day_cache
Ref(date) == [own |-> TRUE, date |-> date]

\* an index whose entries are copies of the day records
create_date_index_of_copies(schedule_days) ==
    [date \in DOMAIN schedule_days |-> [own |-> FALSE, day |-> schedule_days[date]]]

\* {day["date"]: day for day in schedule.days}
create_date_index(schedule_days) == [date \in DOMAIN schedule_days |-> Ref(date)]

\* date_index.get(date), the date being a key: the record the entry refers to
index_get(index, S, date) ==
    IF index[date].own THEN S.days[index[date].date] ELSE index[date].day

(***************************************************************************)
(* Initial states                                                          *)
(***************************************************************************)
\* before Schedule(...) is called: the Worker objects exist and are empty
InitNew ==
    /\ pc = "new"
    /\ error = ""
    /\ start_date = None
    /\ end_date = None
    /\ workers = {}
    /\ days = <<>>
    /\ shifts = [w \in Workers |-> <<>>]
    /\ earnings = [w \in Workers |-> 0]
    /\ days_off = [w \in Workers |-> {}]
    /\ last = NoCall
    /\ calls = 0
    /\ unchecked = FALSE
    /\ stage = "none"
    /\ cursor = 0
    /\ date_index = NoIndex

\* the state right after Schedule(start, end, roster) returned
InitBuilt(start, end, roster) ==
    /\ pc = "ready"
    /\ error = ""
    /\ start_date = start
    /\ end_date = end
    /\ workers = roster
    /\ days = ScheduleInit(start, end, roster).days
    /\ shifts = [w \in Workers |-> <<>>]
    /\ earnings = [w \in Workers |-> 0]
    /\ days_off = [w \in Workers |-> {}]
    /\ last = NoCall
    /\ calls = 0
    /\ unchecked = FALSE
    /\ stage = "none"
    /\ cursor = 0

\* a roster of one technologist and the engineers
Init == InitBuilt(FirstDay, LastDay, TechPool(1) \cup EngPool(NumEngs)) /\ date_index = NoIndex

\* the same-day check comparing against the following day
has_assignment_next_day(worker_shifts, date) ==
    \E i \in 1..Len(worker_shifts) : worker_shifts[i][1] = date + 1

\* any(d == date for d, _ in worker.shifts): the check the callers make
\* before they assign (strictly_can_work_shift, check 4)
has_assignment_that_day(worker_shifts, date) ==
    \E i \in 1..Len(worker_shifts) : worker_shifts[i][1] = date

(***************************************************************************)
(* Actions: the calls a client makes on a built schedule                   *)
(***************************************************************************)
AssignWorker(w, d, s) ==
    /\ pc = "ready"
    /\ LET r == assign_worker(Live, w, d, s) IN
        /\ Commit(r.st)
        /\ Record(Call("assign", <<w, d, s>>, r, Live))
    /\ unchecked' = (unchecked \/ has_assignment_that_day(shifts[w], d))
    /\ UNCHANGED <<date_index, pc, error, start_date, end_date, workers, stage, cursor>>

RemoveWorkerFromShift(w, d, s) ==
    /\ pc = "ready"
    /\ LET r == remove_worker_from_shift(Live, w, d, s) IN
        /\ Commit(r.st)
        /\ Record(Call("remove", <<w, d, s>>, r, Live))
    /\ UNCHANGED <<date_index, pc, error, start_date, end_date, workers, unchecked, stage, cursor>>

Next ==
    \/ \E w \in workers, d \in DateInputs, s \in ShiftTypeSet : AssignWorker(w, d, s)
    \/ \E w \in workers, d \in DateInputs, s \in ShiftTypeSet : RemoveWorkerFromShift(w, d, s)

Spec == Init /\ [][Next]_vars

\* a roster with one technologist more than a night shift requires
InitWide == InitBuilt(FirstDay, LastDay, TechPool(WideTechs) \cup EngPool(1)) /\ date_index = NoIndex

SpecWide == InitWide /\ [][Next]_vars

(***************************************************************************)
(* Construction: Schedule(start_date, end_date, workers)                   *)
(***************************************************************************)
\* dates and rosters a caller may pass to the constructor
CtorDates == FirstDay..(LastDay + 2)

\* Schedule.__init__ as a step: the object exists only when nothing raised
Construct(start, end, roster) ==
    /\ pc = "new"
    /\ LET r == ScheduleInit(start, end, roster) IN
        /\ pc' = IF r.raised THEN "raised" ELSE "ready"
        /\ error' = r.error
        /\ start_date' = IF r.raised THEN None ELSE start
        /\ end_date' = IF r.raised THEN None ELSE end
        /\ workers' = IF r.raised THEN {} ELSE roster
        /\ days' = r.days
        /\ last' = [op |-> "new", args |-> <<start, end, roster>>,
                    ret |-> ~r.raised, raised |-> r.raised, follows |-> FALSE]
    /\ calls' = calls + 1
    /\ UNCHANGED <<shifts, earnings, days_off, unchecked, stage, cursor, date_index>>

NextCtor ==
    \E start \in CtorDates, end \in CtorDates, roster \in SUBSET Workers :
        Construct(start, end, roster)

SpecCtor == InitNew /\ [][NextCtor]_vars

(***************************************************************************)
(* Properties of the Schedule / Worker containers                          *)
(***************************************************************************)
InSlot(w, d, s) ==
    IF w.is_technologist THEN InSeq(w.id, days[d][s].technologists)
    ELSE days[d][s].engineer = w.id

HasShift(w, d, s) == InSeq(<<d, s>>, shifts[w])

CountShift(seq, d, s) == Cardinality({i \in 1..Len(seq) : seq[i] = <<d, s>>})

RECURSIVE SumCompensation(_)
SumCompensation(seq) ==
    IF seq = <<>> THEN 0
    ELSE calculate_compensation(Head(seq)[1], Head(seq)[2]) + SumCompensation(Tail(seq))

\* the last two calls were assign_worker(w, d, s), which succeeded, and then
\* the named operation on the same (w, d, s)
AssignThen(op) == last.op = op /\ last.follows

\* C1: under any sequence of assign_worker / remove_worker_from_shift calls,
\* a worker's id is in a slot (technologist list, or engineer id) if and only
\* if (date, shift_type) is in that worker's shifts.
C1_MirrorConsistency ==
    \A w \in workers, d \in DOMAIN days, s \in ShiftTypeSet :
        InSlot(w, d, s) <=> HasShift(w, d, s)

C3_AssignIdempotent ==
    AssignThen("assign") =>
        LET w == last.args[1]
            d == last.args[2]
            s == last.args[3]
        IN  /\ Len(days[d][s].technologists) = Len(last.pre.slot.technologists)
            /\ CountShift(shifts[w], d, s) = 1
            /\ earnings[w] = last.pre.earnings

\* C4: after every call, each worker's earnings is the sum of
\* calculate_compensation over the entries currently in its shifts.
C4_EarningsMatchShifts ==
    \A w \in workers : earnings[w] = SumCompensation(shifts[w])

\* C5 as stated: a successful assign_worker(w, d, s) immediately followed by
\* remove_worker_from_shift(w, d, s): the remove returns true, and the slot and
\* w.shifts are exactly what they were before the assign.
C5_RemoveRestores ==
    AssignThen("remove") =>
        LET w == last.args[1]
            d == last.args[2]
            s == last.args[3]
        IN  /\ last.ret
            /\ days[d][s] = last.pre0.slot
            /\ shifts[w] = last.pre0.shifts

\* C5 amended: the remove returns true; the slot's technologist list is what
\* it was before the assign; the slot's engineer is what it was when w is a
\* technologist and none when w is an engineer; w.shifts is what it was before
\* the assign without any entry for (d, s).
C5_RemoveUndoesAssign ==
    AssignThen("remove") =>
        LET w == last.args[1]
            d == last.args[2]
            s == last.args[3]
        IN  /\ last.ret
            /\ days[d][s].technologists = last.pre0.slot.technologists
            /\ days[d][s].engineer =
                  (IF w.is_technologist THEN last.pre0.slot.engineer ELSE None)
            /\ shifts[w] = WithoutShift(last.pre0.shifts, d, s)

\* an engineer was assigned over another one and then removed
C5_Witness ==
    /\ AssignThen("remove")
    /\ last.ret
    /\ ~last.args[1].is_technologist
    /\ last.pre0.slot.engineer \notin {None, last.args[1].id}

\* C6: assign_worker with a date outside the schedule returns false, does not
\* raise, and changes no slot, no worker's shifts and no worker's earnings.
C6_OutOfRangeAssign ==
    [][(last'.op = "assign" /\ calls' = calls + 1
            /\ last'.args[2] \notin DOMAIN days)
        => /\ ~last'.ret
           /\ ~last'.raised
           /\ days' = days
           /\ shifts' = shifts
           /\ earnings' = earnings]_vars

\* an out-of-range assign_worker call was made on a schedule holding shifts
C6_Witness ==
    /\ last.op = "assign"
    /\ last.args[2] \notin DOMAIN days
    /\ ~last.ret
    /\ \E w \in workers : shifts[w] # <<>>

\* C7: Schedule(...) with start_date > end_date or with an empty roster raises
\* before any day record exists and before any algorithm runs, the message of
\* the error tells the two failures apart, and a period with
\* start_date <= end_date and a non-empty roster is built.
C7_EagerValidation ==
    last.op = "new" =>
        LET start == last.args[1]
            end == last.args[2]
            roster == last.args[3]
        IN  /\ (start > end \/ roster = {}) =>
                  /\ pc = "raised"
                  /\ days = <<>>
                  /\ stage = "none"
                  /\ error # ""
            /\ (start > end /\ roster # {}) =>
                  error # ScheduleInit(start, start, {}).error
            /\ (start <= end /\ roster = {}) =>
                  error # ScheduleInit(end + 1, end, roster).error
            /\ (start <= end /\ roster # {}) =>
                  /\ pc = "ready"
                  /\ error = ""
                  /\ DOMAIN days = start..end
                  /\ workers = roster

\* a one-day period was built
C7_Witness ==
    /\ last.op = "new"
    /\ last.args[1] = last.args[2]
    /\ pc = "ready"
    /\ DOMAIN days = {last.args[1]}

\* C8 as stated: every slot's technologist list has at most the required
\* count for its shift type, and the slot holds at most one engineer id.
C8_SlotWithinRequired ==
    \A d \in DOMAIN days, s \in ShiftTypeSet :
        /\ Len(days[d][s].technologists) <= TECHS_PER_SHIFT[s]
        /\ days[d][s].engineer \in {None} \cup {w.id : w \in EngPool(NumEngs)}

\* C8 amended: every slot's technologist list holds no id twice, so at most as
\* many ids as the roster has technologists, and the slot holds at most one
\* engineer id.
C8_SlotWithoutDuplicates ==
    \A d \in DOMAIN days, s \in ShiftTypeSet :
        LET techs == days[d][s].technologists IN
        /\ \A i, j \in 1..Len(techs) : techs[i] = techs[j] => i = j
        /\ Len(techs) <= Cardinality({w \in workers : w.is_technologist})
        /\ days[d][s].engineer \in {None} \cup {w.id : w \in {e \in workers : ~e.is_technologist}}

\* a night slot holds more technologists than it requires
C8_Witness ==
    \E d \in DOMAIN days :
        Len(days[d]["Noche"].technologists) > TECHS_PER_SHIFT["Noche"]

(***************************************************************************)
(* Constraint rules: core/constraints.py, core/worker.py,                  *)
(* algorithms/common.py                                                    *)
(***************************************************************************)
shift_indices == [s \in ShiftTypeSet |-> IF s = "Manana" THEN 0
                                         ELSE IF s = "Tarde" THEN 1 ELSE 2]

\* date_idx * 3 + shift_idx, the position of a shift on the timeline
timeline_position(date, shift_type) == date * 3 + shift_indices[shift_type]

Abs(x) == IF x < 0 THEN 0 - x ELSE x

\* a variant that looks only at the shifts before the new one
check_adequate_rest_backward(S, worker, date, shift_type) ==
    \A i \in 1..Len(S.shifts[worker]) :
        LET diff == timeline_position(date, shift_type)
                    - timeline_position(S.shifts[worker][i][1], S.shifts[worker][i][2])
        IN  ~(0 < diff /\ diff <= 2)

\* True when the rest is adequate
check_adequate_rest(S, worker, date, shift_type) ==
    \A i \in 1..Len(S.shifts[worker]) :
        LET diff == Abs(timeline_position(date, shift_type)
                        - timeline_position(S.shifts[worker][i][1], S.shifts[worker][i][2]))
        IN  ~(0 < diff /\ diff <= 2)

check_adequate_rest_relaxed(S, worker, date, shift_type) ==
    \A i \in 1..Len(S.shifts[worker]) :
        Abs(timeline_position(date, shift_type)
            - timeline_position(S.shifts[worker][i][1], S.shifts[worker][i][2])) # 1

\* a variant that looks for a night shift on the date itself
check_night_to_day_transition_same_day(S, worker, date, shift_type) ==
    /\ shift_type = "Manana"
    /\ InSeq(<<date, "Noche">>, S.shifts[worker])

\* True when there is a violation
check_night_to_day_transition(S, worker, date, shift_type) ==
    /\ shift_type = "Manana"
    /\ InSeq(<<date - 1, "Noche">>, S.shifts[worker])

\* True when there is a violation
check_consecutive_shifts(S, worker, date, shift_type) ==
    \E i \in 1..Len(S.shifts[worker]) :
        /\ S.shifts[worker][i][1] = date
        /\ Abs(shift_indices[shift_type] - shift_indices[S.shifts[worker][i][2]]) = 1

\* Worker.can_work_shift
can_work_shift(S, worker, date, shift_type) ==
    /\ date \notin S.days_off[worker]
    /\ ~check_consecutive_shifts(S, worker, date, shift_type)
    /\ ~check_night_to_day_transition(S, worker, date, shift_type)
    /\ check_adequate_rest(S, worker, date, shift_type)

get_recent_shifts(S, worker, date, n) ==
    SelectSeq(S.shifts[worker], LAMBDA e : 0 <= date - e[1] /\ date - e[1] < n)

\* Worker.get_shift_count
get_shift_count(S, worker) == Len(S.shifts[worker])

\* Worker.get_shift_types_count()[shift_type]
get_shift_types_count(S, worker, shift_type) ==
    Cardinality({i \in 1..Len(S.shifts[worker]) : S.shifts[worker][i][2] = shift_type})

Max(set) == CHOOSE x \in set : \A y \in set : y <= x
Min(set) == CHOOSE x \in set : \A y \in set : x <= y

strictly_can_work_shift(S, worker, date, shift_type) ==
    LET counts == {get_shift_types_count(S, worker, s) : s \in ShiftTypeSet} IN
    /\ can_work_shift(S, worker, date, shift_type)
    /\ Len(get_recent_shifts(S, worker, date, 3)) < 3
    /\ ~(Max(counts) - Min(counts) > 5
         /\ get_shift_types_count(S, worker, shift_type) = Max(counts))
    /\ ~(shift_type = "Tarde" /\ InSeq(<<date + 1, "Noche">>, S.shifts[worker]))
    /\ ~has_assignment_that_day(S.shifts[worker], date)
    /\ check_adequate_rest(S, worker, date, shift_type)
    /\ ~check_night_to_day_transition(S, worker, date, shift_type)
    /\ ~check_consecutive_shifts(S, worker, date, shift_type)

\* list.sort(key=...): stable, Less is the strict order of the keys
SortBy(seq, Less(_, _)) ==
    LET n == Len(seq)
        rank(i) == Cardinality({j \in 1..n : \/ Less(seq[j], seq[i])
                                             \/ (~Less(seq[i], seq[j]) /\ j < i)}) + 1
    IN  [p \in 1..n |-> seq[CHOOSE i \in 1..n : rank(i) = p]]

\* key=lambda w: (w.get_shift_count(), w.get_shift_types_count().get(shift_type, 0))
LessLoaded(S, shift_type, a, b) ==
    \/ get_shift_count(S, a) < get_shift_count(S, b)
    \/ /\ get_shift_count(S, a) = get_shift_count(S, b)
       /\ get_shift_types_count(S, a, shift_type) < get_shift_types_count(S, b, shift_type)

\* [w for w in pool if keep(w)]
Filter(pool, Keep(_)) == SelectSeq(pool, Keep)

\* Body applied to value, with value computed once: an operator that reads
\* the state it is given many times takes it through Strict, so that a state
\* that is itself the result of a long computation is computed only once
Strict(value, Body(_)) == CHOOSE result \in {Body(x) : x \in {value}} : TRUE

\* for x in seq: acc = Op(acc, x)
FoldLeft(Op(_, _), acc, seq) ==
    LET f[i \in 0..Len(seq)] ==
            IF i = 0 THEN acc ELSE Strict(f[i - 1], LAMBDA before : Op(before, seq[i]))
    IN  f[Len(seq)]

(***************************************************************************)
(* Lookahead impact scoring: algorithms/common.py                          *)
(***************************************************************************)
RECURSIVE SumSeq(_)
SumSeq(seq) == IF seq = <<>> THEN 0 ELSE Head(seq) + SumSeq(Tail(seq))

\* schedule.end_date, read off the day records
period_end(S) == Max(DOMAIN S.days)

\* the longest run of entries one day apart, scanning the date-sorted list
RECURSIVE max_consecutive(_, _, _, _)
max_consecutive(temp_shifts, i, consecutive_days, best) ==
    IF i > Len(temp_shifts) THEN best
    ELSE IF temp_shifts[i][1] - temp_shifts[i - 1][1] = 1
         THEN max_consecutive(temp_shifts, i + 1, consecutive_days + 1,
                              Max({best, consecutive_days + 1}))
         ELSE max_consecutive(temp_shifts, i + 1, 1, best)

can_assign_flat(impact_score, shift_type) == impact_score < 20

\* can_assign = impact_score < 20 or (impact_score < 40 and shift_type == "Noche")
can_assign(impact_score, shift_type) ==
    impact_score < 20 \/ (impact_score < 40 /\ shift_type = "Noche")

\* (can_assign, impact_score); the score of a blocked candidate is infinite
predict_assignment_impact(S, worker, date, shift_type) ==
    LET blocked == has_assignment_that_day(S.shifts[worker], date)
        current ==
            (IF date \in S.days_off[worker] THEN 40 ELSE 0)
            + (IF check_night_to_day_transition(S, worker, date, shift_type) THEN 30 ELSE 0)
            + (IF check_consecutive_shifts(S, worker, date, shift_type) THEN 20 ELSE 0)
            + (IF ~check_adequate_rest(S, worker, date, shift_type) THEN 15 ELSE 0)
        simulated == [S EXCEPT !.shifts[worker] = Append(@, <<date, shift_type>>)]
        future_impact(future_days, future_shift) ==
            LET future_date == date + future_days
                is_critical_day == weekday(future_date) >= 5 \/ is_colombian_holiday(future_date)
                shift_criticality == IF future_shift = "Noche" THEN 3
                                     ELSE IF future_shift = "Tarde" THEN 2 ELSE 1
            IN  IF future_date > period_end(S) THEN 0
                ELSE IF strictly_can_work_shift(simulated, worker, future_date, future_shift)
                     THEN 0
                     ELSE (4 - future_days) * shift_criticality
                          * (IF is_critical_day THEN 2 ELSE 1)
        future == SumSeq([k \in 1..9 |->
                     future_impact(((k - 1) \div 3) + 1, SHIFT_TYPES[((k - 1) % 3) + 1])])
        temp_shifts == SortBy(Append(get_recent_shifts(S, worker, date, 5),
                                     <<date, shift_type>>),
                              LAMBDA a, b : a[1] < b[1])
        longest == max_consecutive(temp_shifts, 2, 1, 1)
        fatigue == IF longest > 3 THEN (longest - 3) * 5 ELSE 0
        counts == {get_shift_types_count(simulated, worker, s) : s \in ShiftTypeSet}
        diff == Max(counts) - Min(counts)
        imbalance == IF diff >= 3 THEN diff * 2 ELSE 0
        impact_score == current + future + fatigue + imbalance
    IN  [can_assign |-> ~blocked /\ can_assign(impact_score, shift_type),
         impact_score |-> impact_score]

(***************************************************************************)
(* Generator, phases 1 and 2: algorithms/generator.py                      *)
(***************************************************************************)
\* the k-th (date, shift_type) of the loops over date_range and SHIFT_TYPES
SlotDate(start, k) == start + (k \div Len(SHIFT_TYPES))
SlotShift(k) == SHIFT_TYPES[(k % Len(SHIFT_TYPES)) + 1]

RECURSIVE preassign_engineers_from(_, _, _, _, _)
preassign_engineers_from(S0, k, start, end, engineers) ==
    Strict(S0, LAMBDA S :
    IF SlotDate(start, k) > end THEN S
    ELSE LET current_date == SlotDate(start, k)
             shift_type == SlotShift(k)
             eligible_engs ==
                 SortBy(Filter(engineers,
                               LAMBDA e : strictly_can_work_shift(S, e, current_date, shift_type)),
                        LAMBDA a, b : LessLoaded(S, shift_type, a, b))
             S1 == IF S.days[current_date][shift_type].engineer # None \/ eligible_engs = <<>>
                   THEN S
                   ELSE assign_worker(S, eligible_engs[1], current_date, shift_type).st
         IN  preassign_engineers_from(S1, k + 1, start, end, engineers))

preassign_engineers(S, start, end, engineers) ==
    preassign_engineers_from(S, 0, start, end, engineers)

\* for worker in selected: schedule.assign_worker(worker, date, shift_type)
RECURSIVE assign_each(_, _, _, _)
assign_each(S0, selected, date, shift_type) ==
    Strict(S0, LAMBDA S :
    IF selected = <<>> THEN S
    ELSE assign_each(assign_worker(S, Head(selected), date, shift_type).st,
                     Tail(selected), date, shift_type))

RECURSIVE preassign_night_from(_, _, _, _)
preassign_night_from(S0, current_date, end, technologists) ==
    Strict(S0, LAMBDA S :
    IF current_date > end THEN S
    ELSE LET shift_type == "Noche"
             eligible_techs ==
                 SortBy(Filter(technologists,
                               LAMBDA t : strictly_can_work_shift(S, t, current_date, shift_type)),
                        LAMBDA a, b : LessLoaded(S, shift_type, a, b))
             S1 == IF Len(S.days[current_date][shift_type].technologists) >= 2
                      \/ Len(eligible_techs) < 2
                   THEN S
                   ELSE assign_each(S, SubSeq(eligible_techs, 1, 2), current_date, shift_type)
         IN  preassign_night_from(S1, current_date + 1, end, technologists))

preassign_night_technologists(S, start, end, technologists) ==
    preassign_night_from(S, start, end, technologists)

(***************************************************************************)
(* Generator, phase 3: proactive and forced assignment                     *)
(***************************************************************************)
\* shift_type == "Noche" or date.weekday() >= 5 or is_colombian_holiday(date)
is_critical(date, shift_type) ==
    shift_type = "Noche" \/ weekday(date) >= 5 \/ is_colombian_holiday(date)

\* worker.days_off.remove(date)
remove_day_off(S, worker, date) == [S EXCEPT !.days_off[worker] = @ \ {date}]

\* Worker.add_day_off
add_day_off(S, worker, date) == [S EXCEPT !.days_off[worker] = @ \cup {date}]

\* the in-place removal the pipeline uses instead of remove_worker_from_shift:
\* the id leaves the slot if it is there
remove_from_slot(S, worker, date, shift_type) ==
    IF worker.is_technologist
    THEN [S EXCEPT !.days[date][shift_type].technologists = RemoveFirst(@, worker.id)]
    ELSE IF S.days[date][shift_type].engineer = worker.id
         THEN [S EXCEPT !.days[date][shift_type].engineer = None]
         ELSE S

\* a removal that takes the id out of the slot and leaves worker.shifts alone
drop_shift_entries_never(S, worker, date, shift_type) == S

\* worker.shifts = [(d, s) for d, s in worker.shifts if not (d == date and s == shift_type)]
drop_shift_entries(S, worker, date, shift_type) ==
    [S EXCEPT !.shifts[worker] = WithoutShift(@, date, shift_type)]

\* the replacement candidates of one pass of replace_worker
replacement_candidates(S, date, shift_type, removed_worker, available_workers, strict) ==
    Filter(available_workers,
           LAMBDA w :
               /\ w.id # removed_worker.id
               /\ ~(IF w.is_technologist
                    THEN InSeq(w.id, S.days[date][shift_type].technologists)
                    ELSE S.days[date][shift_type].engineer = w.id)
               /\ ~has_assignment_that_day(S.shifts[w], date)
               /\ date \notin S.days_off[w]
               /\ ~check_night_to_day_transition(S, w, date, shift_type)
               /\ ~check_consecutive_shifts(S, w, date, shift_type)
               /\ (strict => check_adequate_rest(S, w, date, shift_type)))

replace_worker(S0, date, shift_type, removed_worker, available_workers) ==
    Strict(S0, LAMBDA S :
    IF date \notin DOMAIN S.days THEN Result(FALSE, FALSE, S)
    ELSE LET shift_data == S.days[date][shift_type]
             needed == IF removed_worker.is_technologist
                       THEN TECHS_PER_SHIFT[shift_type] - Len(shift_data.technologists)
                       ELSE 1 - (IF shift_data.engineer # None THEN 1 ELSE 0)
             first_pass == replacement_candidates(S, date, shift_type, removed_worker,
                                                  available_workers, TRUE)
             suitable_replacements ==
                 SortBy(IF first_pass # <<>> THEN first_pass
                        ELSE replacement_candidates(S, date, shift_type, removed_worker,
                                                    available_workers, FALSE),
                        LAMBDA a, b : LessLoaded(S, shift_type, a, b))
         IN  IF needed <= 0 THEN Result(TRUE, FALSE, S)
             ELSE IF suitable_replacements # <<>>
                  THEN Result(TRUE, FALSE,
                              assign_worker(S, suitable_replacements[1], date, shift_type).st)
                  ELSE Result(FALSE, FALSE, S))

\* next((s for d, s in worker.shifts if d == date), None); None is ""
other_shift_on(S, worker, date) ==
    LET held == {i \in 1..Len(S.shifts[worker]) : S.shifts[worker][i][1] = date}
    IN  IF held = {} THEN "" ELSE S.shifts[worker][Min(held)][2]

shift_priority(shift_type) ==
    IF shift_type = "Noche" THEN 3
    ELSE IF shift_type = "Tarde" THEN 2
    ELSE IF shift_type = "Manana" THEN 1 ELSE 0

\* one entry of worker_impacts; adjusted_impact is kept in tenths
worker_impact(S, worker, date, shift_type) ==
    LET has_other_shift == has_assignment_that_day(S.shifts[worker], date)
        has_day_off == date \in S.days_off[worker]
        other_shift == other_shift_on(S, worker, date)
        impact ==
            (IF has_day_off THEN 40 ELSE 0)
            + (IF check_night_to_day_transition(S, worker, date, shift_type) THEN 30 ELSE 0)
            + (IF check_consecutive_shifts(S, worker, date, shift_type) THEN 20 ELSE 0)
            + (IF ~check_adequate_rest(S, worker, date, shift_type) THEN 15 ELSE 0)
            + (IF has_other_shift THEN 50 ELSE 0)
            - (IF has_other_shift /\ other_shift # "Noche" /\ shift_type = "Noche"
               THEN 10 ELSE 0)
    IN  [worker |-> worker,
         impact |-> impact,
         adjusted_impact |-> impact * 10 + get_shift_count(S, worker)
                             - get_shift_types_count(S, worker, shift_type),
         has_other_shift |-> has_other_shift,
         has_day_off |-> has_day_off]

\* an exception leaves the function: the state is as the statements before
\* the failing one left it
Raise(S) == [S EXCEPT !.raised = TRUE]

\* a variant that runs worker.days_off.remove(date) for every selected worker
remove_day_off_unconditionally(S, has_day_off, worker, date) ==
    IF date \in S.days_off[worker] THEN remove_day_off(S, worker, date) ELSE Raise(S)

\* "if has_day_off: worker.days_off.remove(date)": list.remove raises
\* ValueError when the date is not in the list
remove_day_off_if(S, has_day_off, worker, date) ==
    IF ~has_day_off THEN S
    ELSE IF date \in S.days_off[worker] THEN remove_day_off(S, worker, date)
    ELSE Raise(S)

\* the selection loop of force_assign_with_impact over the sorted snapshot;
\* day_data["shifts"][other_shift] raises KeyError when other_shift is None
RECURSIVE force_assign_loop(_, _, _, _, _, _, _, _)
force_assign_loop(S0, worker_impacts, i, selected, additional_needed, date, shift_type, pool) ==
    Strict(S0, LAMBDA S :
    IF S.raised \/ i > Len(worker_impacts) \/ selected >= additional_needed THEN S
    ELSE LET entry == worker_impacts[i]
             worker == entry.worker
             other_shift == other_shift_on(S, worker, date)
             released ==
                 replace_worker(
                     drop_shift_entries(remove_from_slot(S, worker, date, other_shift),
                                        worker, date, other_shift),
                     date, other_shift, worker, pool).st
             S1 == IF entry.has_other_shift THEN released ELSE S
             S2 == Strict(S1, LAMBDA kept :
                       remove_day_off_if(kept, entry.has_day_off, worker, date))
         IN  IF entry.has_other_shift
                /\ shift_priority(shift_type) <= shift_priority(other_shift)
             THEN force_assign_loop(S, worker_impacts, i + 1, selected, additional_needed,
                                    date, shift_type, pool)
             ELSE IF entry.has_other_shift /\ other_shift = "" THEN Raise(S)
             ELSE Strict(S2, LAMBDA freed :
                  IF freed.raised THEN freed
                  ELSE force_assign_loop(assign_worker(freed, worker, date, shift_type).st,
                                         worker_impacts, i + 1, selected + 1,
                                         additional_needed, date, shift_type, pool)))

\* worker_impacts of force_assign_with_impact, sorted by adjusted impact
sorted_worker_impacts(S, date, shift_type, pool, is_technologist) ==
    LET shift_data == S.days[date][shift_type]
        candidates ==
            Filter(pool, LAMBDA w : ~(IF is_technologist
                                      THEN InSeq(w.id, shift_data.technologists)
                                      ELSE shift_data.engineer = w.id))
    IN  SortBy([k \in 1..Len(candidates) |->
                   worker_impact(S, candidates[k], date, shift_type)],
               LAMBDA a, b : a.adjusted_impact < b.adjusted_impact)

force_assign_with_impact(S0, date, shift_type, pool, is_technologist) ==
    Strict(S0, LAMBDA S :
    IF date \notin DOMAIN S.days THEN S
    ELSE LET shift_data == S.days[date][shift_type]
             additional_needed ==
                 IF is_technologist
                 THEN TECHS_PER_SHIFT[shift_type] - Len(shift_data.technologists)
                 ELSE 1 - (IF shift_data.engineer # None THEN 1 ELSE 0)
             worker_impacts == sorted_worker_impacts(S, date, shift_type, pool, is_technologist)
         IN  IF additional_needed <= 0 THEN S
             ELSE force_assign_loop(S, worker_impacts, 1, 0, additional_needed, date,
                                    shift_type, pool))

\* the priority classes of find_additional_eligible_workers
relaxed_class(S, worker, date, shift_type) ==
    IF date \in S.days_off[worker] \/ has_assignment_that_day(S.shifts[worker], date)
    THEN "none"
    ELSE IF check_night_to_day_transition(S, worker, date, shift_type)
    THEN (IF shift_type = "Noche" THEN "low" ELSE "none")
    ELSE IF check_consecutive_shifts(S, worker, date, shift_type) THEN "low"
    ELSE IF check_adequate_rest_relaxed(S, worker, date, shift_type) THEN "medium"
    ELSE "low"

find_additional_eligible_workers(S, pool, date, shift_type, already_eligible) ==
    LET not_eligible == Filter(pool, LAMBDA w : ~InSeq(w, already_eligible))
        by_load(seq) == SortBy(seq, LAMBDA a, b : LessLoaded(S, shift_type, a, b))
        medium_priority ==
            by_load(Filter(not_eligible,
                           LAMBDA w : relaxed_class(S, w, date, shift_type) = "medium"))
        low_priority ==
            by_load(Filter(not_eligible,
                           LAMBDA w : relaxed_class(S, w, date, shift_type) = "low"))
        last_resort ==
            SortBy(Filter(not_eligible,
                          LAMBDA w : /\ relaxed_class(S, w, date, shift_type) = "none"
                                     /\ date \in S.days_off[w]
                                     /\ ~has_assignment_that_day(S.shifts[w], date)),
                   LAMBDA a, b :
                       \/ Cardinality(S.days_off[a]) > Cardinality(S.days_off[b])
                       \/ /\ Cardinality(S.days_off[a]) = Cardinality(S.days_off[b])
                          /\ get_shift_count(S, a) < get_shift_count(S, b))
    IN  IF shift_type = "Noche"
           /\ Len(already_eligible) + Len(medium_priority) + Len(low_priority) < 2
        THEN already_eligible \o medium_priority \o low_priority \o last_resort
        ELSE already_eligible \o medium_priority \o low_priority

\* for tech in selected_techs: drop the day off if there is one, then assign
RECURSIVE assign_each_lifting_day_off(_, _, _, _)
assign_each_lifting_day_off(S0, selected, date, shift_type) ==
    Strict(S0, LAMBDA S :
    IF selected = <<>> THEN S
    ELSE assign_each_lifting_day_off(
             assign_worker(remove_day_off(S, Head(selected), date),
                           Head(selected), date, shift_type).st,
             Tail(selected), date, shift_type))

\* select_workers_proactively(pool, n_needed, date, shift_type, schedule): the
\* accepted candidates are those predict_assignment_impact lets through, and
\* the n_needed best ranked are returned; the ranking weights are not in the
\* source, so every ranking is a possible result
select_workers_proactively(S, pool, n_needed, date, shift_type) ==
    LET accepted == {w \in {pool[i] : i \in 1..Len(pool)} :
                        predict_assignment_impact(S, w, date, shift_type).can_assign}
        n == Min({n_needed, Cardinality(accepted)})
    IN  {sel \in [1..n -> accepted] : \A i, j \in 1..n : sel[i] = sel[j] => i = j}

\* current_techs and eligible_techs of assign_technologists_proactive
current_techs(S, date, shift_type, technologists) ==
    Filter(technologists, LAMBDA t : InSeq(t.id, S.days[date][shift_type].technologists))

eligible_techs(S, date, shift_type, technologists) ==
    LET additional_needed == TECHS_PER_SHIFT[shift_type]
                             - Len(current_techs(S, date, shift_type, technologists))
        basic == Filter(technologists,
                        LAMBDA t : /\ ~InSeq(t, current_techs(S, date, shift_type, technologists))
                                   /\ ~has_assignment_that_day(S.shifts[t], date)
                                   /\ date \notin S.days_off[t])
    IN  IF Len(basic) < additional_needed /\ 2 * Len(basic) < additional_needed
        THEN find_additional_eligible_workers(S, technologists, date, shift_type, basic)
        ELSE basic

\* the values selected_techs can take
selected_techs_choices(S, date, shift_type, technologists) ==
    LET additional_needed == TECHS_PER_SHIFT[shift_type]
                             - Len(current_techs(S, date, shift_type, technologists))
        eligible == eligible_techs(S, date, shift_type, technologists)
    IN  IF additional_needed <= 0 THEN {<<>>}
        ELSE IF Len(eligible) < additional_needed THEN {eligible}
        ELSE select_workers_proactively(S, eligible, additional_needed, date, shift_type)

assign_technologists_proactive(S, date, shift_type, technologists, selected_techs) ==
    LET num_needed == TECHS_PER_SHIFT[shift_type]
        current == current_techs(S, date, shift_type, technologists)
    IN  IF num_needed - Len(current) <= 0 THEN Result(TRUE, FALSE, S)
        ELSE Result(Len(current) + Len(selected_techs) >= num_needed, FALSE,
                    assign_each_lifting_day_off(S, selected_techs, date, shift_type))

assign_engineers_proactive(S0, date, shift_type, engineers) ==
    Strict(S0, LAMBDA S :
    LET available_engs ==
            Filter(engineers, LAMBDA e : /\ ~has_assignment_that_day(S.shifts[e], date)
                                         /\ date \notin S.days_off[e])
        relaxed_engs ==
            SortBy(Filter(engineers, LAMBDA e : ~has_assignment_that_day(S.shifts[e], date)),
                   LAMBDA a, b : date \notin S.days_off[a] /\ date \in S.days_off[b])
        eng_impacts ==
            SortBy(Filter(available_engs,
                          LAMBDA e : predict_assignment_impact(S, e, date, shift_type).can_assign),
                   LAMBDA a, b :
                       predict_assignment_impact(S, a, date, shift_type).impact_score
                       < predict_assignment_impact(S, b, date, shift_type).impact_score)
    IN  IF S.days[date][shift_type].engineer # None THEN Result(TRUE, FALSE, S)
        ELSE IF available_engs = <<>>
        THEN IF is_critical(date, shift_type) /\ relaxed_engs # <<>>
             THEN Result(TRUE, FALSE,
                         assign_worker(remove_day_off(S, relaxed_engs[1], date),
                                       relaxed_engs[1], date, shift_type).st)
             ELSE Result(FALSE, FALSE, S)
        ELSE IF eng_impacts # <<>>
        THEN Result(TRUE, FALSE, assign_worker(S, eng_impacts[1], date, shift_type).st)
        ELSE Result(FALSE, FALSE, S))

assign_shift_proactively(S, date, shift_type, technologists, engineers, selected_techs) ==
    Strict(assign_technologists_proactive(S, date, shift_type, technologists, selected_techs),
           LAMBDA tech :
    Strict(assign_engineers_proactive(tech.st, date, shift_type, engineers),
           LAMBDA eng :
    LET S1 == IF tech.ret THEN eng.st
              ELSE force_assign_with_impact(eng.st, date, shift_type, technologists, TRUE)
        S2 == Strict(S1, LAMBDA forced :
                  IF eng.ret \/ forced.raised THEN forced
                  ELSE force_assign_with_impact(forced, date, shift_type, engineers, FALSE))
    IN  IF ~(tech.ret /\ eng.ret) /\ is_critical(date, shift_type)
        THEN Result(TRUE, FALSE, S2)
        ELSE Result(tech.ret /\ eng.ret, FALSE, eng.st)))

(***************************************************************************)
(* generate_schedule(start_date, end_date, technologists, engineers)       *)
(***************************************************************************)
\* the arguments of the run: main.py numbers each class from 1
\* the technologists are as many as a night shift requires
PipeTechnologists == [i \in 1..TECHS_PER_SHIFT["Noche"] |-> Technologist(i)]
PipeEngineers == [i \in 1..PipeEngs |-> Engineer(i)]

PipeRoster == {PipeTechnologists[i] : i \in 1..Len(PipeTechnologists)}
              \cup {PipeEngineers[i] : i \in 1..Len(PipeEngineers)}

\* the periods generate_schedule is run on start on any day of the week
\* from Sunday 2025-01-05, the day before a holiday, and last up to PipeDays
PipeFirst == FirstDay + 2
PipeStarts == PipeFirst..(PipeFirst + 6)

\* the state right after schedule = Schedule(start_date, end_date,
\* technologists + engineers), with generate_schedule about to run phase 1
InitPipe ==
    /\ pc = "ready"
    /\ error = ""
    /\ start_date \in PipeStarts
    /\ end_date \in start_date..(start_date + PipeDays - 1)
    /\ workers = PipeRoster
    /\ days = ScheduleInit(start_date, end_date, PipeRoster).days
    /\ shifts = [w \in Workers |-> <<>>]
    /\ earnings = [w \in Workers |-> 0]
    /\ days_off = [w \in Workers |-> {}]
    /\ last = NoCall
    /\ calls = 0
    /\ unchecked = FALSE
    /\ stage = "preassign_engineers"
    /\ cursor = 0
    /\ date_index = create_date_index(days)

identify_critical_days(start, end) ==
    {d \in start..end : weekday(d) >= 5 \/ is_colombian_holiday(d)}

\* sorted(date_range(start_date, end_date), key=lambda d: (0 if d in critical_days else 1, d))
ordered_dates(start, end) ==
    LET critical_days == identify_critical_days(start, end) IN
    SortBy([i \in 1..(end - start + 1) |-> start + i - 1],
           LAMBDA a, b : \/ (a \in critical_days /\ b \notin critical_days)
                         \/ ((a \in critical_days <=> b \in critical_days) /\ a < b))

RECURSIVE Flatten(_)
Flatten(seqs) == IF seqs = <<>> THEN <<>> ELSE Head(seqs) \o Flatten(Tail(seqs))

\* the (date, shift_type) pairs the two passes of
\* generate_remaining_shifts_proactive visit, in order
remaining_slots(start, end) ==
    LET dates == ordered_dates(start, end)
        pass(pass_num) ==
            Flatten([i \in 1..Len(dates) |->
                IF pass_num = 1 /\ dates[i] \notin identify_critical_days(start, end)
                THEN << <<dates[i], "Noche">> >>
                ELSE [k \in 1..Len(SHIFT_TYPES) |-> <<dates[i], SHIFT_TYPES[k]>>]])
    IN  pass(1) \o pass(2)

\* a variant that balances the workload before the days off are planned
PipelineOrder_balancer_first ==
    <<"preassign_engineers", "preassign_night_technologists",
      "generate_remaining_shifts_proactive", "balance_workload",
      "ensure_weekly_days_off", "fix_schedule_issues", "resolve_constraint_violations",
      "verify_weekly_days_off", "optimize_fairness", "optimize_fairness_done",
      "returned">>

\* the calls of generate_schedule in the order of its text, and its return
PipelineOrder ==
    <<"preassign_engineers", "preassign_night_technologists",
      "generate_remaining_shifts_proactive", "ensure_weekly_days_off",
      "balance_workload", "fix_schedule_issues", "resolve_constraint_violations",
      "verify_weekly_days_off", "optimize_fairness", "optimize_fairness_done",
      "returned">>

StageRank(s) == CHOOSE k \in 1..Len(PipelineOrder) : PipelineOrder[k] = s

\* the call that follows when the call of stage s has returned
NextStage(s) == PipelineOrder[StageRank(s) + 1]

\* what a step of the pipeline leaves alone
PipeFrame == UNCHANGED <<date_index, pc, error, start_date, end_date, workers, last, calls, unchecked>>

PreassignEngineers ==
    /\ stage = "preassign_engineers"
    /\ Commit(preassign_engineers(Live, start_date, end_date, PipeEngineers))
    /\ stage' = NextStage(stage)
    /\ UNCHANGED cursor
    /\ PipeFrame

PreassignNightTechnologists ==
    /\ stage = "preassign_night_technologists"
    /\ Commit(preassign_night_technologists(Live, start_date, end_date, PipeTechnologists))
    /\ stage' = NextStage(stage)
    /\ cursor' = 1
    /\ PipeFrame

\* some worker lost a shift between S and T: a forced assignment displaced it
displaced(S, T) ==
    \E w \in DOMAIN S.shifts :
        \E i \in 1..Len(S.shifts[w]) : ~InSeq(S.shifts[w][i], T.shifts[w])

\* one iteration of the loops of generate_remaining_shifts_proactive; last
\* remembers the latest slot whose staffing displaced a worker
GenerateRemainingShift ==
    /\ stage = "generate_remaining_shifts_proactive"
    /\ LET slots == remaining_slots(start_date, end_date)
           current_date == slots[cursor][1]
           shift_type == slots[cursor][2]
           shift_data == days[current_date][shift_type]
       IN  /\ IF Len(shift_data.technologists) >= TECHS_PER_SHIFT[shift_type]
                 /\ shift_data.engineer # None
              THEN /\ UNCHANGED <<days, shifts, earnings, days_off, last, pc, error>>
                   /\ stage' = IF cursor = Len(slots) THEN NextStage(stage) ELSE stage
              ELSE \E selected_techs \in
                        selected_techs_choices(Live, current_date, shift_type,
                                               PipeTechnologists) :
                      \E r \in {assign_shift_proactively(Live, current_date, shift_type,
                                                          PipeTechnologists, PipeEngineers,
                                                          selected_techs)} :
                          /\ Commit(r.st)
                          /\ last' = IF displaced(Live, r.st)
                                     THEN [NoCall EXCEPT
                                              !.op = "force_assign_with_impact",
                                              !.args = <<current_date, shift_type>>,
                                              !.ret = TRUE]
                                     ELSE last
                          /\ pc' = IF r.st.raised THEN "raised" ELSE pc
                          /\ error' = IF r.st.raised THEN "force_assign_with_impact" ELSE error
                          /\ stage' = IF r.st.raised THEN "raised"
                                       ELSE IF cursor = Len(slots)
                                       THEN NextStage(stage) ELSE stage
    /\ cursor' = cursor + 1
    /\ UNCHANGED <<date_index, start_date, end_date, workers, calls, unchecked>>

(***************************************************************************)
(* The validator: core/constraints.py                                      *)
(***************************************************************************)
\* one entry of the violation report; the fields a kind does not use are None
Violation(kind, worker, date1, shift1, date2, shift2, actual) ==
    [kind |-> kind, worker |-> worker, date1 |-> date1, shift1 |-> shift1,
     date2 |-> date2, shift2 |-> shift2, actual |-> actual]

\* a rest check that flags only shifts that follow one another directly
rest_flagged_next_only(date1, shift1, date2, shift2) ==
    timeline_position(date2, shift2) - timeline_position(date1, shift1) = 1

\* the rest check of validate_schedule on two neighbouring shifts
rest_flagged(date1, shift1, date2, shift2) ==
    LET gap == timeline_position(date2, shift2) - timeline_position(date1, shift1)
    IN  0 < gap /\ gap <= 2

\* sorted(worker.shifts, key=lambda x: (x[0], shift_indices[x[1]]))
sorted_shifts(S, worker) ==
    SortBy(S.shifts[worker],
           LAMBDA a, b : timeline_position(a[1], a[2]) < timeline_position(b[1], b[2]))

\* a part 1 that reports a missing engineer only
coverage_violations_engineer_only(S, date, shift_type) ==
    IF S.days[date][shift_type].engineer = None
    THEN <<Violation("engineer", None, date, shift_type, None, None, None)>>
    ELSE <<>>

\* part 1 of validate_schedule for one slot
coverage_violations(S, date, shift_type) ==
    LET shift == S.days[date][shift_type]
        actual_techs == Len(shift.technologists)
    IN  (IF actual_techs # TECHS_PER_SHIFT[shift_type]
         THEN <<Violation("technologists", None, date, shift_type, None, None, actual_techs)>>
         ELSE <<>>)
        \o (IF shift.engineer = None
            THEN <<Violation("engineer", None, date, shift_type, None, None, None)>>
            ELSE <<>>)

\* part 2 of validate_schedule for one worker and one pair of neighbours
pair_violations(worker, first, second) ==
    LET date1 == first[1]
        shift1 == first[2]
        date2 == second[1]
        shift2 == second[2]
    IN  (IF date1 = date2 /\ Abs(shift_indices[shift1] - shift_indices[shift2]) = 1
         THEN <<Violation("consecutive", worker, date1, shift1, date2, shift2, None)>>
         ELSE <<>>)
        \o (IF shift1 = "Noche" /\ shift2 = "Manana" /\ date2 - date1 = 1
            THEN <<Violation("night_to_day", worker, date1, shift1, date2, shift2, None)>>
            ELSE <<>>)
        \o (IF rest_flagged(date1, shift1, date2, shift2)
            THEN <<Violation("rest", worker, date1, shift1, date2, shift2, None)>>
            ELSE <<>>)

worker_violations(S, worker) ==
    LET sorted == sorted_shifts(S, worker) IN
    Flatten([i \in 1..(Len(sorted) - 1) |-> pair_violations(worker, sorted[i], sorted[i + 1])])

\* the violation report, in the order validate_schedule appends to it
validate_schedule(S, start, end, all_workers) ==
    Flatten([k \in 1..((end - start + 1) * Len(SHIFT_TYPES)) |->
                coverage_violations(S, SlotDate(start, k - 1), SlotShift(k - 1))])
    \o Flatten([i \in 1..Len(all_workers) |-> worker_violations(S, all_workers[i])])

(***************************************************************************)
(* Day-off planner and balancer: algorithms/generator.py                   *)
(***************************************************************************)
get_week_start(date) == date - weekday(date)

\* replacements chosen without looking at the shifts they hold that day
available_replacements_any_day(S, worker, day, shift_type, pool) ==
    SortBy(Filter(pool, LAMBDA t : t.id # worker.id /\ day \notin S.days_off[t]),
           LAMBDA a, b : LessLoaded(S, shift_type, a, b))

\* the same-class workers that can take over a liberated shift, least loaded
\* first
available_replacements(S, worker, day, shift_type, pool) ==
    SortBy(Filter(pool, LAMBDA t : /\ t.id # worker.id
                                   /\ ~has_assignment_that_day(S.shifts[t], day)
                                   /\ day \notin S.days_off[t]),
           LAMBDA a, b : LessLoaded(S, shift_type, a, b))

liberate_day_for_worker(S0, worker, day, shift_type, technologists, engineers) ==
    Strict(S0, LAMBDA S :
    IF day \notin DOMAIN S.days THEN Result(FALSE, FALSE, S)
    ELSE LET S1 == drop_shift_entries(remove_from_slot(S, worker, day, shift_type),
                                      worker, day, shift_type)
             pool == IF worker.is_technologist THEN technologists ELSE engineers
             replacements == available_replacements(S1, worker, day, shift_type, pool)
             wanted == IF worker.is_technologist
                       THEN Len(S1.days[day][shift_type].technologists)
                            < TECHS_PER_SHIFT[shift_type]
                       ELSE TRUE
         IN  IF wanted /\ replacements # <<>>
             THEN Result(TRUE, FALSE, assign_worker(S1, replacements[1], day, shift_type).st)
             ELSE Result(FALSE, FALSE, S1))

\* the weeks of ensure_weekly_days_off: Monday to Sunday, cut to the period
weeks(start, end) ==
    LET first == get_week_start(start)
    IN  [k \in 1..(((end - first) \div 7) + 1) |->
            [effective_start |-> Max({first + (7 * (k - 1)), start}),
             effective_end |-> Min({first + (7 * (k - 1)) + 6, end})]]

week_days(week) == week.effective_start..week.effective_end

\* [d for d in worker.days_off if effective_start <= d <= effective_end]
days_off_in_week(S, worker, week) == S.days_off[worker] \cap week_days(week)

\* get_week_workload: the worker's shifts of the week with the cost of
\* liberating each, cheapest first.  curr_shifts < avg_shifts_per_type * 0.7
\* with avg_shifts_per_type = total_shifts / 3 is compared in whole numbers
get_week_workload(S, start, end, worker, emergency) ==
    LET in_week == SelectSeq(S.shifts[worker],
                             LAMBDA e : start <= e[1] /\ e[1] <= end /\ e[1] \in DOMAIN S.days)
        cost(d, s) ==
            LET other_workers == IF worker.is_technologist
                                 THEN Len(S.days[d][s].technologists) - 1 ELSE 0
                weekend_factor == IF weekday(d) >= 5 THEN 3 ELSE 1
                shift_factor == IF s = "Noche" THEN 3 ELSE IF s = "Tarde" THEN 2 ELSE 1
                min_workers == IF worker.is_technologist THEN TECHS_PER_SHIFT[s]
                               ELSE ENG_PER_SHIFT
                worker_factor == IF other_workers <= min_workers - 1 THEN 5
                                 ELSE IF other_workers <= min_workers THEN 3 ELSE 1
                expertise_factor ==
                    IF 30 * get_shift_types_count(S, worker, s) < 7 * get_shift_count(S, worker)
                    THEN 3 ELSE 1
                adjacency_penalty == 2 * Cardinality({d - 1, d + 1} \cap S.days_off[worker])
                holiday_factor == IF is_colombian_holiday(d) THEN 2 ELSE 1
            IN  IF emergency THEN weekend_factor + worker_factor + holiday_factor
                ELSE (weekend_factor * shift_factor * worker_factor * expertise_factor
                      * holiday_factor) + adjacency_penalty
    IN  SortBy([i \in 1..Len(in_week) |->
                   [day |-> in_week[i][1], shift |-> in_week[i][2],
                    cost |-> cost(in_week[i][1], in_week[i][2])]],
               LAMBDA a, b : a.cost < b.cost)

\* liberate_day_for_worker(...) followed by worker.add_day_off(free_day)
liberate_and_rest(S, worker, free, technologists, engineers) ==
    add_day_off(liberate_day_for_worker(S, worker, free.day, free.shift,
                                        technologists, engineers).st,
                worker, free.day)

\* first loop of ensure_weekly_days_off for one worker and one week; P is the
\* schedule state st and the set workers_with_days_off, which holds worker.id
night_rest_day(P, worker, week) ==
    LET S == P.st
        rest_days ==
            {d \in week_days(week) :
                /\ d - 1 \in week_days(week)
                /\ InSeq(<<d - 1, "Noche">>, S.shifts[worker])
                /\ ~has_assignment_that_day(S.shifts[worker], d)}
    IN  IF days_off_in_week(S, worker, week) # {}
        THEN [P EXCEPT !.workers_with_days_off = @ \cup {worker.id}]
        ELSE IF rest_days # {}
        THEN [P EXCEPT !.st = add_day_off(S, worker, Min(rest_days)),
                       !.workers_with_days_off = @ \cup {worker.id}]
        ELSE P

\* the cost of a candidate day in fifths: the code adds 0.2 for every worker
\* with a shift that day
candidate_day_cost(P, worker, day, all_workers) ==
    (25 * (IF worker.is_technologist THEN P.tech_count[day] ELSE P.eng_count[day]))
    + (15 * Max({0, (Len(all_workers) \div 3) - P.total_assigned[day]}))
    + (IF weekday(day) >= 5 THEN 50 ELSE 0)
    + (IF weekday(day) \in {0, 4} THEN 25 ELSE 0)
    + Cardinality({i \in 1..Len(all_workers) :
                      has_assignment_that_day(P.st.shifts[all_workers[i]], day)})

\* second loop of ensure_weekly_days_off for one worker that needs a day off
plan_day_off(P, worker, week, technologists, engineers) ==
    LET S == P.st
        all_workers == technologists \o engineers
        candidate_days == {d \in week_days(week) : ~has_assignment_that_day(S.shifts[worker], d)}
        cheapest == {d \in candidate_days :
                        \A e \in candidate_days :
                            candidate_day_cost(P, worker, d, all_workers)
                            <= candidate_day_cost(P, worker, e, all_workers)}
        selected_day == Min(cheapest)
        free_days == get_week_workload(S, week.effective_start, week.effective_end,
                                       worker, FALSE)
    IN  IF candidate_days # {}
        THEN [P EXCEPT !.st = add_day_off(S, worker, selected_day),
                       !.workers_with_days_off = @ \cup {worker.id},
                       !.tech_count[selected_day] = @ + (IF worker.is_technologist THEN 1 ELSE 0),
                       !.eng_count[selected_day] = @ + (IF worker.is_technologist THEN 0 ELSE 1)]
        ELSE IF free_days # <<>>
        THEN [P EXCEPT !.st = liberate_and_rest(S, worker, free_days[1],
                                                technologists, engineers),
                       !.workers_with_days_off = @ \cup {worker.id}]
        ELSE P

\* second loop of ensure_weekly_days_off for one week: the distribution of
\* days off and assignments is counted once, then the workers not yet in
\* workers_with_days_off are served, busiest first
plan_week(P, week, technologists, engineers) ==
    LET S == P.st
        all_workers == technologists \o engineers
        resting(pool, day) == Cardinality({i \in 1..Len(pool) : day \in S.days_off[pool[i]]})
        assigned(day) ==
            SumSeq([k \in 1..Len(SHIFT_TYPES) |->
                       Len(S.days[day][SHIFT_TYPES[k]].technologists)
                       + (IF S.days[day][SHIFT_TYPES[k]].engineer # None THEN 1 ELSE 0)])
        workers_needing_day_off ==
            SortBy(Filter(all_workers, LAMBDA w : w.id \notin P.workers_with_days_off),
                   LAMBDA a, b : get_shift_count(S, a) > get_shift_count(S, b))
        counted == [st |-> S,
                    workers_with_days_off |-> P.workers_with_days_off,
                    tech_count |-> [d \in week_days(week) |-> resting(technologists, d)],
                    eng_count |-> [d \in week_days(week) |-> resting(engineers, d)],
                    total_assigned |-> [d \in week_days(week) |-> assigned(d)]]
    IN  FoldLeft(LAMBDA Q, worker : plan_day_off(Q, worker, week, technologists, engineers),
                 counted, workers_needing_day_off)

\* the emergency loop of ensure_weekly_days_off for one worker: the first
\* week without a day off in which the worker has a shift gives one up
emergency_day_off(S, worker, start, end, technologists, engineers) ==
    LET all_weeks == weeks(start, end)
        free_days(k) == get_week_workload(S, all_weeks[k].effective_start,
                                          all_weeks[k].effective_end, worker, TRUE)
        usable == {k \in 1..Len(all_weeks) :
                      /\ days_off_in_week(S, worker, all_weeks[k]) = {}
                      /\ free_days(k) # <<>>}
    IN  IF usable = {} THEN S
        ELSE liberate_and_rest(S, worker, free_days(Min(usable))[1], technologists, engineers)

\* "Fase 1" of ensure_weekly_days_off: per worker, per week, the day after a
\* night shift
post_night_phase(S, start, end, technologists, engineers) ==
    FoldLeft(LAMBDA P, worker :
                 FoldLeft(LAMBDA Q, week : night_rest_day(Q, worker, week),
                          P, weeks(start, end)),
             [st |-> S, workers_with_days_off |-> {}], technologists \o engineers)

\* "Fase 2" of ensure_weekly_days_off: per week, the workers not yet in
\* workers_with_days_off
balanced_phase(P0, start, end, technologists, engineers) ==
    FoldLeft(LAMBDA P, week : plan_week(P, week, technologists, engineers),
             P0, weeks(start, end))

\* the weeks the final verification of ensure_weekly_days_off finds without a
\* day off of the worker ("weeks_missing"), by their number
weeks_missing(T, worker, start, end) ==
    {k \in 1..Len(weeks(start, end)) :
        days_off_in_week(T, worker, weeks(start, end)[k]) = {}}

\* the emergency phase of ensure_weekly_days_off, workers with most weeks
\* missing first
emergency_phase(T0, start, end, technologists, engineers) ==
    Strict(T0, LAMBDA T :
        FoldLeft(LAMBDA U, worker :
                     emergency_day_off(U, worker, start, end, technologists, engineers),
                 T,
                 SortBy(Filter(technologists \o engineers,
                               LAMBDA w : weeks_missing(T, w, start, end) # {}),
                        LAMBDA a, b : Cardinality(weeks_missing(T, a, start, end))
                                      > Cardinality(weeks_missing(T, b, start, end)))))

ensure_weekly_days_off(S, start, end, technologists, engineers) ==
    emergency_phase(
        balanced_phase(post_night_phase(S, start, end, technologists, engineers),
                       start, end, technologists, engineers).st,
        start, end, technologists, engineers)

can_receive_unrested(S, to_worker, date, shift_type) ==
    /\ date \notin S.days_off[to_worker]
    /\ ~has_assignment_that_day(S.shifts[to_worker], date)
    /\ ~check_night_to_day_transition(S, to_worker, date, shift_type)
    /\ ~check_consecutive_shifts(S, to_worker, date, shift_type)

\* the checks a receiver must pass in transfer_shift_safely
can_receive(S, to_worker, date, shift_type) ==
    /\ date \notin S.days_off[to_worker]
    /\ ~has_assignment_that_day(S.shifts[to_worker], date)
    /\ ~check_night_to_day_transition(S, to_worker, date, shift_type)
    /\ ~check_consecutive_shifts(S, to_worker, date, shift_type)
    /\ check_adequate_rest(S, to_worker, date, shift_type)

move_shift_copied(S, from_worker, to_worker, date, shift_type) ==
    assign_worker(S, to_worker, date, shift_type).st

\* the donor leaves the slot and loses the entry, the receiver is assigned
move_shift(S, from_worker, to_worker, date, shift_type) ==
    assign_worker(drop_shift_entries(remove_from_slot(S, from_worker, date, shift_type),
                                     from_worker, date, shift_type),
                  to_worker, date, shift_type).st

transfer_shift_safely(S, from_worker, to_worker) ==
    LET ordered == SortBy(S.shifts[from_worker], LAMBDA a, b : a[1] > b[1])
        fitting == {i \in 1..Len(ordered) :
                       can_receive(S, to_worker, ordered[i][1], ordered[i][2])}
    IN  IF fitting = {} THEN Result(FALSE, FALSE, S)
        ELSE Result(TRUE, FALSE,
                    move_shift(S, from_worker, to_worker,
                               ordered[Min(fitting)][1], ordered[Min(fitting)][2]))

\* the checks of exchange_shifts_by_type on the worker that is to take
\* (date, shift_type)
can_take_in_exchange(S, worker, date, shift_type) ==
    /\ date \notin S.days_off[worker]
    /\ ~(\E i \in 1..Len(S.shifts[worker]) :
            S.shifts[worker][i][1] = date /\ S.shifts[worker][i][2] # shift_type)
    /\ ~check_night_to_day_transition(S, worker, date, shift_type)
    /\ ~check_consecutive_shifts(S, worker, date, shift_type)
    /\ check_adequate_rest(S, worker, date, shift_type)

exchange_shifts_by_type(S, worker1, worker2, type1, type2) ==
    LET type1_shifts == SelectSeq(S.shifts[worker2], LAMBDA e : e[2] = type1)
        type2_shifts == SelectSeq(S.shifts[worker1], LAMBDA e : e[2] = type2)
        fitting == {p \in (1..Len(type1_shifts)) \X (1..Len(type2_shifts)) :
                       /\ can_take_in_exchange(S, worker1, type1_shifts[p[1]][1], type1)
                       /\ can_take_in_exchange(S, worker2, type2_shifts[p[2]][1], type2)}
        first == CHOOSE p \in fitting :
                     \A q \in fitting : p[1] < q[1] \/ (p[1] = q[1] /\ p[2] <= q[2])
        date1 == type1_shifts[first[1]][1]
        date2 == type2_shifts[first[2]][1]
        S1 == remove_from_slot(remove_from_slot(S, worker2, date1, type1),
                               worker1, date2, type2)
        S2 == drop_shift_entries(drop_shift_entries(S1, worker1, date2, type2),
                                 worker2, date1, type1)
        S3 == assign_worker(S2, worker1, date1, type1).st
    IN  IF fitting = {} THEN Result(FALSE, FALSE, S)
        ELSE Result(TRUE, FALSE, assign_worker(S3, worker2, date2, type2).st)

\* is_weekend or is_night or is_holiday
is_premium_shift(date, shift_type) ==
    weekday(date) >= 5 \/ shift_type = "Noche" \/ is_colombian_holiday(date)

transfer_premium_shift(S, from_worker, to_worker) ==
    LET premium_shifts ==
            SortBy(SelectSeq(S.shifts[from_worker],
                             LAMBDA e : is_premium_shift(e[1], e[2])),
                   LAMBDA a, b : calculate_compensation(a[1], a[2])
                                 > calculate_compensation(b[1], b[2]))
        fitting == {i \in 1..Len(premium_shifts) :
                       LET date == premium_shifts[i][1]
                           shift_type == premium_shifts[i][2]
                           compensation_value == calculate_compensation(date, shift_type)
                       IN  /\ date \notin S.days_off[to_worker]
                           /\ ~has_assignment_that_day(S.shifts[to_worker], date)
                           /\ ~check_night_to_day_transition(S, to_worker, date, shift_type)
                           /\ ~check_consecutive_shifts(S, to_worker, date, shift_type)
                           /\ S.earnings[from_worker] - compensation_value
                              >= S.earnings[to_worker] + compensation_value}
        date == premium_shifts[Min(fitting)][1]
        shift_type == premium_shifts[Min(fitting)][2]
        compensation_value == calculate_compensation(date, shift_type)
        moved == move_shift(S, from_worker, to_worker, date, shift_type)
    IN  IF fitting = {} THEN Result(FALSE, FALSE, S)
        ELSE Result(TRUE, FALSE,
                    [moved EXCEPT
                        !.earnings[from_worker] = S.earnings[from_worker] - compensation_value,
                        !.earnings[to_worker] = S.earnings[to_worker] + compensation_value])

(***************************************************************************)
(* Repair engine: algorithms/generator.py                                  *)
(***************************************************************************)
\* seq[:n]
Take(seq, n) == SubSeq(seq, 1, Min({n, Len(seq)}))

\* night_to_day or consecutive or not adequate_rest
has_restrictions(S, worker, date, shift_type) ==
    \/ check_night_to_day_transition(S, worker, date, shift_type)
    \/ check_consecutive_shifts(S, worker, date, shift_type)
    \/ ~check_adequate_rest(S, worker, date, shift_type)

\* (found, engineer to assign, state): the first engineer holding a lower
\* priority shift that day gives it up, and a backup takes it if there is one
find_engineer_to_reassign(S0, date, shift_type, engineers) ==
    Strict(S0, LAMBDA S :
    LET movable == {i \in 1..Len(engineers) :
                       /\ has_assignment_that_day(S.shifts[engineers[i]], date)
                       /\ shift_priority(other_shift_on(S, engineers[i], date))
                          < shift_priority(shift_type)}
        eng == engineers[Min(movable)]
        current_shift_type == other_shift_on(S, eng, date)
        S1 == remove_from_slot(drop_shift_entries(S, eng, date, current_shift_type),
                               eng, date, current_shift_type)
        backups == Filter(engineers,
                          LAMBDA b : b.id # eng.id /\ ~has_assignment_that_day(S1.shifts[b], date))
    IN  IF movable = {} THEN [found |-> FALSE, eng |-> None, st |-> S]
        ELSE [found |-> TRUE, eng |-> eng,
              st |-> IF backups = <<>> THEN S1
                     ELSE assign_worker(S1, backups[1], date, current_shift_type).st])

correct_engineer_issue(S0, date, shift_type, engineers) ==
    Strict(S0, LAMBDA S :
    LET free == Filter(engineers, LAMBDA e : ~has_assignment_that_day(S.shifts[e], date))
        engs_with_day_off ==
            SortBy(Filter(free, LAMBDA e : date \in S.days_off[e]),
                   LAMBDA a, b :
                       \/ Cardinality(S.days_off[a]) < Cardinality(S.days_off[b])
                       \/ /\ Cardinality(S.days_off[a]) = Cardinality(S.days_off[b])
                          /\ get_shift_count(S, a) > get_shift_count(S, b))
        engs_with_restrictions ==
            SortBy(Filter(free, LAMBDA e : /\ date \notin S.days_off[e]
                                           /\ has_restrictions(S, e, date, shift_type)),
                   LAMBDA a, b : LessLoaded(S, shift_type, a, b))
        engs_no_restrictions ==
            SortBy(Filter(free, LAMBDA e : /\ date \notin S.days_off[e]
                                           /\ ~has_restrictions(S, e, date, shift_type)),
                   LAMBDA a, b : LessLoaded(S, shift_type, a, b))
        reassigned == find_engineer_to_reassign(S, date, shift_type, engineers)
    IN  IF engs_no_restrictions # <<>>
        THEN assign_worker(S, engs_no_restrictions[1], date, shift_type).st
        ELSE IF engs_with_restrictions # <<>>
        THEN assign_worker(S, engs_with_restrictions[1], date, shift_type).st
        ELSE IF engs_with_day_off # <<>>
        THEN assign_worker(remove_day_off(S, engs_with_day_off[1], date),
                           engs_with_day_off[1], date, shift_type).st
        ELSE IF reassigned.found
        THEN assign_worker(reassigned.st, reassigned.eng, date, shift_type).st
        ELSE reassigned.st)

\* a variant that assigns the technologists in crisis and keeps their days off
remove_day_off_each_kept(S0, selected, date) == S0

\* for tech in crisis_techs: tech.days_off.remove(date)
RECURSIVE remove_day_off_each(_, _, _)
remove_day_off_each(S0, selected, date) ==
    Strict(S0, LAMBDA S :
    IF selected = <<>> THEN S
    ELSE remove_day_off_each(remove_day_off(S, Head(selected), date), Tail(selected), date))

\* the removal loop of the surplus branch of correct_technologist_issue
RECURSIVE remove_each(_, _, _, _)
remove_each(S0, selected, date, shift_type) ==
    Strict(S0, LAMBDA S :
    IF selected = <<>> THEN S
    ELSE remove_each(
             drop_shift_entries(
                 [S EXCEPT !.days[date][shift_type].technologists =
                              RemoveFirst(@, Head(selected).id)],
                 Head(selected), date, shift_type),
             Tail(selected), date, shift_type))

correct_technologist_issue(S0, date, shift_type, current_count, required_count, technologists) ==
    Strict(S0, LAMBDA S :
    LET shift_data == S.days[date][shift_type]
        free == Filter(technologists,
                       LAMBDA w : /\ ~InSeq(w.id, shift_data.technologists)
                                  /\ ~has_assignment_that_day(S.shifts[w], date))
        is_premium == weekday(date) >= 5 \/ shift_type = "Noche"
        by_preference(seq) ==
            IF is_premium
            THEN SortBy(seq, LAMBDA a, b : S.earnings[a] < S.earnings[b])
            ELSE SortBy(seq, LAMBDA a, b : LessLoaded(S, shift_type, a, b))
        available_no_restrictions ==
            by_preference(Filter(free, LAMBDA w : /\ date \notin S.days_off[w]
                                                  /\ ~has_restrictions(S, w, date, shift_type)))
        available_with_restrictions ==
            by_preference(Filter(free, LAMBDA w : /\ date \notin S.days_off[w]
                                                  /\ has_restrictions(S, w, date, shift_type)))
        available_with_day_off ==
            SortBy(Filter(free, LAMBDA w : date \in S.days_off[w]),
                   LAMBDA a, b :
                       \/ Cardinality(S.days_off[a]) > Cardinality(S.days_off[b])
                       \/ /\ Cardinality(S.days_off[a]) = Cardinality(S.days_off[b])
                          /\ get_shift_count(S, a) < get_shift_count(S, b))
        needed == required_count - current_count
        first == Take(available_no_restrictions, needed)
        second == Take(available_with_restrictions, needed - Len(first))
        crisis_techs == Take(available_with_day_off, needed - Len(first) - Len(second))
        assigned_techs ==
            SortBy(Filter(technologists, LAMBDA w : InSeq(w.id, shift_data.technologists)),
                   LAMBDA a, b :
                       \/ S.earnings[a] > S.earnings[b]
                       \/ /\ S.earnings[a] = S.earnings[b]
                          /\ get_shift_count(S, a) < get_shift_count(S, b))
    IN  IF current_count < required_count
        THEN assign_each(remove_day_off_each(S, crisis_techs, date),
                         first \o second \o crisis_techs, date, shift_type)
        ELSE IF current_count > required_count
        THEN remove_each(S, Take(assigned_techs, current_count - required_count),
                         date, shift_type)
        ELSE S)

\* one pass over a list of coverage issues taken from a report made before
\* the pass: the counts of a technologist issue are those of the report
RECURSIVE correct_each(_, _, _, _)
correct_each(S0, issues, technologists, engineers) ==
    Strict(S0, LAMBDA S :
    IF issues = <<>> THEN S
    ELSE LET issue == Head(issues)
             S1 == IF issue.kind = "engineer"
                   THEN correct_engineer_issue(S, issue.date1, issue.shift1, engineers)
                   ELSE correct_technologist_issue(S, issue.date1, issue.shift1, issue.actual,
                                                   TECHS_PER_SHIFT[issue.shift1], technologists)
         IN  correct_each(S1, Tail(issues), technologists, engineers))

fix_schedule_issues(S, start, end, technologists, engineers) ==
    LET violations == validate_schedule(S, start, end, technologists \o engineers)
        tech_count_issues ==
            SortBy(SelectSeq(violations, LAMBDA v : v.kind = "technologists"),
                   LAMBDA a, b : a.actual < b.actual)
        eng_missing_issues == SelectSeq(violations, LAMBDA v : v.kind = "engineer")
    IN  correct_each(S, eng_missing_issues \o tech_count_issues, technologists, engineers)

\* the keys of a dict filled in the order of seq
RECURSIVE Keys(_, _)
Keys(seq, seen) ==
    IF seq = <<>> THEN <<>>
    ELSE IF Head(seq) \in seen THEN Keys(Tail(seq), seen)
    ELSE <<Head(seq)>> \o Keys(Tail(seq), seen \cup {Head(seq)})

\* a variant that takes the night shift of a night-to-morning violation
shifts_to_change_night(violation) ==
    IF violation.kind = "night_to_day" THEN {"Noche"}
    ELSE IF violation.kind = "consecutive" THEN {violation.shift1, violation.shift2}
    ELSE {}

\* the shift types resolve_constraint_violations collects from one violation:
\* the pattern applied to a rest violation matches nothing, the error is
\* swallowed and the violation contributes no shift
shifts_to_change(violation) ==
    IF violation.kind = "night_to_day" THEN {"Manana"}
    ELSE IF violation.kind = "consecutive" THEN {violation.shift1, violation.shift2}
    ELSE {}

\* the (worker, date, shift_type) steps of resolve_constraint_violations in
\* the order it takes them; set_order is the iteration order of
\* list(set(shifts_to_change))
resolve_steps(violations, set_order) ==
    LET constraint_violations ==
            SelectSeq(violations,
                      LAMBDA v : v.kind \in {"rest", "night_to_day", "consecutive"})
        of_worker(w) == SelectSeq(constraint_violations, LAMBDA v : v.worker = w)
        dates(w) == Keys([i \in 1..Len(of_worker(w)) |-> of_worker(w)[i].date2], {})
        changes(w, d) ==
            UNION {shifts_to_change(of_worker(w)[i]) :
                       i \in {j \in 1..Len(of_worker(w)) : of_worker(w)[j].date2 = d}}
        steps(w, d) ==
            LET chosen == SelectSeq(set_order, LAMBDA s : s \in changes(w, d))
            IN  [i \in 1..Len(chosen) |-> <<w, d, chosen[i]>>]
        worker_order ==
            Keys([i \in 1..Len(constraint_violations) |-> constraint_violations[i].worker], {})
    IN  Flatten([i \in 1..Len(worker_order) |->
                    Flatten([j \in 1..Len(dates(worker_order[i])) |->
                                steps(worker_order[i], dates(worker_order[i])[j])])])

RECURSIVE resolve_each(_, _, _, _)
resolve_each(S0, steps, technologists, engineers) ==
    Strict(S0, LAMBDA S :
    IF steps = <<>> THEN S
    ELSE LET worker == Head(steps)[1]
             date == Head(steps)[2]
             shift_type == Head(steps)[3]
             shift_data == S.days[date][shift_type]
             is_assigned == IF worker.is_technologist
                            THEN InSeq(worker.id, shift_data.technologists)
                            ELSE shift_data.engineer = worker.id
             S1 == drop_shift_entries(remove_from_slot(S, worker, date, shift_type),
                                      worker, date, shift_type)
             S2 == replace_worker(S1, date, shift_type, worker,
                                  IF worker.is_technologist THEN technologists
                                  ELSE engineers).st
         IN  resolve_each(IF is_assigned THEN S2 ELSE S, Tail(steps), technologists, engineers))

resolve_constraint_violations(S, start, end, technologists, engineers, set_order) ==
    resolve_each(S,
                 resolve_steps(validate_schedule(S, start, end, technologists \o engineers),
                               set_order),
                 technologists, engineers)

\* worker.earnings = sum(calculate_compensation(d, s) for d, s in worker.shifts)
recalculate_earnings(S, group) ==
    [S EXCEPT !.earnings = [w \in DOMAIN S.earnings |->
                               IF w \in group THEN SumCompensation(S.shifts[w])
                               ELSE S.earnings[w]]]

(***************************************************************************)
(* generate_schedule, the stages after generation: one action per stage,   *)
(* each the whole function the stage calls.                                *)
(***************************************************************************)
\* the end of a stage
PipeAdvance(next_stage) ==
    /\ stage' = next_stage
    /\ UNCHANGED cursor
    /\ PipeFrame

\* what a phase of the planner leaves of the workers' shifts and days off
PhaseRecord(S) == [shifts |-> S.shifts, days_off |-> S.days_off]

\* the call of ensure_weekly_days_off; last keeps what the workers held
\* after its first and after its second phase
EnsureWeeklyDaysOff ==
    /\ stage = "ensure_weekly_days_off"
    /\ \E first \in {post_night_phase(Live, start_date, end_date, PipeTechnologists,
                                       PipeEngineers)} :
       \E second \in {balanced_phase(first, start_date, end_date, PipeTechnologists,
                                      PipeEngineers)} :
          /\ Commit(emergency_phase(second.st, start_date, end_date, PipeTechnologists,
                                    PipeEngineers))
          /\ last' = [NoCall EXCEPT !.op = "ensure_weekly_days_off",
                                    !.args = <<PhaseRecord(Live), PhaseRecord(first.st),
                                               PhaseRecord(second.st)>>]
    /\ stage' = NextStage(stage)
    /\ UNCHANGED <<date_index, pc, error, start_date, end_date, workers, calls, unchecked, cursor>>

\* x / whole * 100 compared with a percentage, a percentage being 0 when
\* whole is not positive ("... if tech_min > 0 else 0")
percent_above(x, whole, percent) == whole > 0 /\ x * 100 > percent * whole
percent_below(x, whole, percent) == ~(whole > 0) \/ x * 100 < percent * whole

\* what a transfer did to the two workers: the compensation of the shifts
\* each holds, before and after, and the schedule before and after
transfer_record(op, S, T, from_worker, to_worker) ==
    [op |-> op, from_worker |-> from_worker, to_worker |-> to_worker,
     pre |-> S, post |-> T,
     from_before |-> SumCompensation(S.shifts[from_worker]),
     to_before |-> SumCompensation(S.shifts[to_worker]),
     from_after |-> SumCompensation(T.shifts[from_worker]),
     to_after |-> SumCompensation(T.shifts[to_worker])]

\* for from_worker in froms: for to_worker in tos: a transfer is tried while
\* fewer than max_transfers were made; P is [st, transfers, log]
transfer_pairs(P0, op, froms, tos, max_transfers, Transfer(_, _, _)) ==
    LET pairs == Flatten([i \in 1..Len(froms) |->
                             [j \in 1..Len(tos) |-> <<froms[i], tos[j]>>]])
        step(P, pair) ==
            IF P.transfers >= max_transfers THEN P
            ELSE Strict(Transfer(P.st, pair[1], pair[2]), LAMBDA r :
                 IF r.ret
                 THEN [st |-> r.st, transfers |-> P.transfers + 1,
                       log |-> Append(P.log, transfer_record(op, P.st, r.st,
                                                             pair[1], pair[2]))]
                 ELSE P)
    IN  FoldLeft(step, [st |-> P0.st, transfers |-> 0, log |-> P0.log], pairs)

\* should_balance of balance_worker_group, for a worker of the group pool
should_balance(S, worker, pool, start, end) ==
    LET counts == [s \in ShiftTypeSet |-> get_shift_types_count(S, worker, s)]
        max_count == Max({counts[s] : s \in ShiftTypeSet})
        min_count == Min({counts[s] : s \in ShiftTypeSet})
        period_duration == end - start + 1
        total == SumSeq([i \in 1..Len(pool) |-> get_shift_count(S, pool[i])])
        absolute_imbalance == max_count - min_count
    IN  \/ /\ absolute_imbalance * 60 > 90 + period_duration
           /\ absolute_imbalance > 1
           /\ absolute_imbalance * 12 * Len(pool) > total
        \/ /\ period_duration > 14
           /\ IF min_count > 0 THEN absolute_imbalance * 100 > 40 * min_count ELSE TRUE

\* max(counts, key=counts.get) and min(counts, key=counts.get): the first
\* shift type of SHIFT_TYPES with the extreme count
extreme_type(S, worker, want_max) ==
    LET count(s) == get_shift_types_count(S, worker, s)
        extreme == IF want_max THEN Max({count(s) : s \in ShiftTypeSet})
                   ELSE Min({count(s) : s \in ShiftTypeSet})
    IN  SHIFT_TYPES[Min({k \in 1..Len(SHIFT_TYPES) : count(SHIFT_TYPES[k]) = extreme})]

\* the second loop of balance_worker_group, for one worker: the first other
\* worker with the complementary surplus whose exchange succeeds
balance_types_of(P, worker, pool, start, end) ==
    LET S == P.st
        min_type == extreme_type(S, worker, FALSE)
        max_type == extreme_type(S, worker, TRUE)
        fitting == {k \in 1..Len(pool) :
                       /\ pool[k].id # worker.id
                       /\ get_shift_types_count(S, pool[k], min_type)
                          > get_shift_types_count(S, worker, min_type)
                       /\ get_shift_types_count(S, worker, max_type)
                          > get_shift_types_count(S, pool[k], max_type)
                       /\ exchange_shifts_by_type(S, worker, pool[k],
                                                  min_type, max_type).ret}
    IN  IF ~should_balance(S, worker, pool, start, end) \/ fitting = {} THEN P
        ELSE Strict(exchange_shifts_by_type(S, worker, pool[Min(fitting)],
                                            min_type, max_type).st,
                    LAMBDA T :
                    [P EXCEPT !.st = T,
                              !.log = Append(P.log,
                                             transfer_record("exchange_shifts_by_type", S, T,
                                                             worker, pool[Min(fitting)]))])

\* the total-count step of balance_worker_group ("Equilibrar turnos totales")
balance_total_shifts(P, pool) ==
    LET S == P.st
        counts == {get_shift_count(S, pool[i]) : i \in 1..Len(pool)}
        min_shifts == Min(counts)
        max_shifts == Max(counts)
        workers_with_most == SelectSeq(pool, LAMBDA w : get_shift_count(S, w) = max_shifts)
        workers_with_least == SelectSeq(pool, LAMBDA w : get_shift_count(S, w) = min_shifts)
    IN  IF max_shifts - min_shifts > 1
        THEN transfer_pairs(P, "transfer_shift_safely", workers_with_most,
                            workers_with_least, 8, transfer_shift_safely)
        ELSE P

balance_worker_group(P, pool, start, end) ==
    LET totals == balance_total_shifts(P, pool)
    IN  FoldLeft(LAMBDA Q, worker : balance_types_of(Q, worker, pool, start, end),
                 [st |-> totals.st, log |-> totals.log], pool)

\* the compensation of the premium shifts a worker holds
premium_value(S, worker) ==
    SumCompensation(SelectSeq(S.shifts[worker], LAMBDA e : is_premium_shift(e[1], e[2])))

balance_premium_shifts(P, pool) ==
    LET S == P.st
        values == {premium_value(S, pool[i]) : i \in 1..Len(pool)}
        min_value == Min(values)
        max_value == Max(values)
        workers_with_most ==
            SelectSeq(pool, LAMBDA w : premium_value(S, w) * 100 > min_value * 115)
        workers_with_least ==
            SelectSeq(pool, LAMBDA w : premium_value(S, w) * 100 < max_value * 85)
        made == transfer_pairs(P, "transfer_premium_shift", workers_with_most,
                               workers_with_least, 5, transfer_premium_shift)
    IN  IF percent_above(max_value - min_value, min_value, 15)
        THEN [st |-> made.st, log |-> made.log]
        ELSE P

\* two passes over both groups, then the premium shifts of both groups; the
\* result is the state and the transfers made, in order
balance_workload(S, start, end, technologists, engineers) ==
    LET group(P, pool) == balance_worker_group(P, pool, start, end)
        pass(P) == Strict(group(P, technologists), LAMBDA Q : group(Q, engineers))
    IN  Strict(pass([st |-> S, log |-> <<>>]), LAMBDA first :
        Strict(pass(first), LAMBDA second :
        Strict(balance_premium_shifts(second, technologists), LAMBDA third :
        balance_premium_shifts(third, engineers))))

BalanceWorkload ==
    /\ stage = "balance_workload"
    /\ \E r \in {balance_workload(Live, start_date, end_date, PipeTechnologists,
                                  PipeEngineers)} :
        /\ Commit(r.st)
        /\ last' = [NoCall EXCEPT !.op = "balance_workload", !.args = r.log]
    /\ stage' = NextStage(stage)
    /\ UNCHANGED <<date_index, pc, error, start_date, end_date, workers, calls, unchecked, cursor>>

\* the record of the call holds what the workers held when it began
FixScheduleIssues ==
    /\ stage = "fix_schedule_issues"
    /\ Commit(fix_schedule_issues(Live, start_date, end_date, PipeTechnologists,
                                  PipeEngineers))
    /\ last' = [NoCall EXCEPT !.op = "fix_schedule_issues", !.args = PhaseRecord(Live)]
    /\ stage' = NextStage(stage)
    /\ UNCHANGED <<date_index, pc, error, start_date, end_date, workers, calls, unchecked, cursor>>

\* the orders in which list(set(...)) can yield the shift types
SetOrders ==
    {o \in [1..Len(SHIFT_TYPES) -> ShiftTypeSet] : \A s \in ShiftTypeSet : InSeq(s, o)}

\* the record of the call holds the shifts the workers held when it began
ResolveConstraintViolations ==
    /\ stage = "resolve_constraint_violations"
    /\ \E set_order \in SetOrders :
          Commit(resolve_constraint_violations(Live, start_date, end_date, PipeTechnologists,
                                               PipeEngineers, set_order))
    /\ last' = [NoCall EXCEPT !.op = "resolve_constraint_violations", !.args = shifts]
    /\ stage' = NextStage(stage)
    /\ UNCHANGED <<date_index, pc, error, start_date, end_date, workers, calls, unchecked, cursor>>

\* a variant that exempts the weeks with fewer than 5 days inside the period
verify_weeks_five_days(start, end) ==
    LET first_date == get_week_start(start)
        mondays == [k \in 1..(((end - first_date) \div 7) + 1) |-> first_date + (7 * (k - 1))]
        week_days_of(current_monday) == {day \in current_monday..(current_monday + 6) : start <= day /\ day <= end}
    IN  Filter([k \in 1..Len(mondays) |-> week_days_of(mondays[k])],
               LAMBDA w : Cardinality(w) >= 5)

\* the weeks of verify_weekly_days_off: for every Monday from the one on or
\* before the start up to the end, the days of its week inside the period
verify_weeks(start, end) ==
    LET first_date == get_week_start(start)
        mondays == [k \in 1..(((end - first_date) \div 7) + 1) |-> first_date + (7 * (k - 1))]
        week_days_of(current_monday) == {day \in current_monday..(current_monday + 6) : start <= day /\ day <= end}
    IN  Filter([k \in 1..Len(mondays) |-> week_days_of(mondays[k])], LAMBDA w : w # {})

\* a verifier that looks at the first week only
verify_weekly_days_off_first_week(S, start, end, technologists, engineers) ==
    LET all_workers == technologists \o engineers
        all_weeks == verify_weeks(start, end)
        violations == Filter([i \in 1..Len(all_workers) |-> <<all_workers[i], 1>>],
                             LAMBDA v : S.days_off[v[1]] \cap all_weeks[1] = {})
    IN  [all_compliant |-> violations = <<>>, violations |-> violations]

\* verify_weekly_days_off: every (worker, week number) without a day off in
\* the week is printed as a violation; returns whether there was none
verify_weekly_days_off(S, start, end, technologists, engineers) ==
    LET all_workers == technologists \o engineers
        all_weeks == verify_weeks(start, end)
        of_worker(worker) ==
            Filter([i \in 1..Len(all_weeks) |-> <<worker, i>>],
                   LAMBDA v : S.days_off[worker] \cap all_weeks[v[2]] = {})
        violations == FoldLeft(LAMBDA acc, worker : acc \o of_worker(worker), <<>>, all_workers)
    IN  [all_compliant |-> violations = <<>>, violations |-> violations]

VerifyWeeklyDaysOff ==
    /\ stage = "verify_weekly_days_off"
    /\ \E r \in {verify_weekly_days_off(Live, start_date, end_date, PipeTechnologists, PipeEngineers)} :
        last' = [NoCall EXCEPT !.op = "verify_weekly_days_off", !.args = r.violations,
                                  !.ret = r.all_compliant]
    /\ stage' = NextStage(stage)
    /\ UNCHANGED <<date_index, pc, error, start_date, end_date, workers, days, shifts, earnings, days_off,
                   calls, unchecked, cursor>>

class_min(S, group) == Min({S.earnings[group[i]] : i \in 1..Len(group)})
class_max(S, group) == Max({S.earnings[group[i]] : i \in 1..Len(group)})

\* the ratio, not the percentage, compared with EQUITY_THRESHOLD
above_equity_threshold_ratio(max_earnings, min_earnings) ==
    min_earnings > 0 /\ max_earnings - min_earnings > 3 * min_earnings

\* tech_diff_percent > EQUITY_THRESHOLD, with EQUITY_THRESHOLD = 3.0
above_equity_threshold(max_earnings, min_earnings) ==
    percent_above(max_earnings - min_earnings, min_earnings, 3)

\* improvement = old_diff - new_diff < limit_num / limit_den (percent); the
\* old minimum is positive, the loop being entered above the threshold only
improvement_below(old_max, old_min, new_max, new_min, limit_num, limit_den) ==
    IF new_min > 0
    THEN 100 * limit_den * ((old_max - old_min) * new_min - (new_max - new_min) * old_min)
         < limit_num * old_min * new_min
    ELSE 100 * limit_den * (old_max - old_min) < limit_num * old_min

\* the while loop over one (rich, poor) pair: transfers, each followed by the
\* recalculation of the two workers' earnings, until one fails or the
\* allowance is used
RECURSIVE fairness_pair(_, _, _, _)
fairness_pair(S0, rich, poor, allowed) ==
    Strict(S0, LAMBDA S :
    IF allowed <= 0 THEN [st |-> S, transfers |-> 0]
    ELSE Strict(transfer_premium_shift(S, rich, poor), LAMBDA r :
         IF ~r.ret THEN [st |-> S, transfers |-> 0]
         ELSE Strict(fairness_pair(recalculate_earnings(r.st, {rich, poor}),
                                   rich, poor, allowed - 1),
                     LAMBDA rest : [st |-> rest.st, transfers |-> rest.transfers + 1])))

\* one pass: the two nested for loops over the richest and the poorest
fairness_pass(S, min_earnings, richest, poorest, max_transfers, is_technologist) ==
    LET pairs == Flatten([i \in 1..Len(richest) |->
                             [j \in 1..Len(poorest) |-> <<richest[i], poorest[j]>>]])
        step(P, pair) ==
            LET earnings_gap == P.st.earnings[pair[1]] - P.st.earnings[pair[2]]
                max_transfers_per_pair ==
                    IF is_technologist /\ percent_above(earnings_gap, min_earnings, 8) THEN 3
                    ELSE IF percent_above(earnings_gap, min_earnings, 5) THEN 2
                    ELSE 1
            IN  IF P.transfers >= max_transfers
                   \/ percent_below(earnings_gap, min_earnings, 1)
                THEN P
                ELSE Strict(fairness_pair(P.st, pair[1], pair[2],
                                          Min({max_transfers_per_pair,
                                               max_transfers - P.transfers})),
                            LAMBDA r : [st |-> r.st,
                                        transfers |-> P.transfers + r.transfers])
    IN  FoldLeft(step, [st |-> S, transfers |-> 0], pairs)

pass_limit_reached_late(current_pass) == current_pass >= 4

\* not (current_pass < max_passes), with max_passes = 3
pass_limit_reached(current_pass) == current_pass >= 3

\* what one pass found and left: the class maximum and minimum before and
\* after it and the transfers it made
pass_record(old_max, old_min, pass, group) ==
    [old_max |-> old_max, old_min |-> old_min, transfers |-> pass.transfers,
     new_max |-> class_max(pass.st, group), new_min |-> class_min(pass.st, group)]

\* the while loop of one class; exit tells how it ended, trail holds the
\* record of every pass that ran
RECURSIVE fairness_passes(_, _, _, _, _)
fairness_passes(S0, group, old_max, old_min, current_pass) ==
    Strict(S0, LAMBDA S :
    LET is_technologist == group[1].is_technologist
        by_earnings == SortBy(group, LAMBDA a, b : S.earnings[a] < S.earnings[b])
        n == Len(group)
        count == Min({n, Max({4, (n * 2) \div 5})})
        poorest == IF is_technologist THEN SubSeq(by_earnings, 1, count)
                   ELSE SubSeq(by_earnings, 1, n \div 2)
        richest == IF is_technologist
                   THEN [i \in 1..count |-> by_earnings[n + 1 - i]]
                   ELSE SubSeq(by_earnings, n \div 2 + 1, n)
        max_transfers ==
            IF ~is_technologist THEN 8
            ELSE IF percent_above(old_max - old_min, old_min, 9)
                    \/ (old_max - old_min) * 100 = 9 * old_min
            THEN 45
            ELSE ((old_max - old_min) * 500) \div old_min
    IN  IF ~above_equity_threshold(old_max, old_min)
        THEN [st |-> S, exit |-> "within_threshold", trail |-> <<>>]
        ELSE IF pass_limit_reached(current_pass)
        THEN [st |-> S, exit |-> "max_passes", trail |-> <<>>]
        ELSE Strict(fairness_pass(S, old_min, richest, poorest, max_transfers,
                                  is_technologist),
                    LAMBDA pass :
             IF pass.transfers = 0
             THEN [st |-> pass.st, exit |-> "no_transfers",
                   trail |-> <<pass_record(old_max, old_min, pass, group)>>]
             ELSE IF improvement_below(old_max, old_min, class_max(pass.st, group),
                                       class_min(pass.st, group),
                                       IF is_technologist THEN 2 ELSE 3, 10)
             THEN [st |-> pass.st, exit |-> "plateau",
                   trail |-> <<pass_record(old_max, old_min, pass, group)>>]
             ELSE Strict(fairness_passes(pass.st, group, class_max(pass.st, group),
                                         class_min(pass.st, group), current_pass + 1),
                         LAMBDA rest :
                         [rest EXCEPT !.trail = <<pass_record(old_max, old_min, pass, group)>>
                                                \o @])))

\* optimize_fairness: every worker's earnings are recomputed from its shifts,
\* the statistics of both classes are taken, then the technologists' loop
\* runs and the engineers' loop after it
optimize_fairness(S, technologists, engineers) ==
    LET group(seq) == {seq[i] : i \in 1..Len(seq)}
    IN  Strict(recalculate_earnings(S, group(technologists) \cup group(engineers)),
               LAMBDA S1 :
        Strict(fairness_passes(S1, technologists, class_max(S1, technologists),
                               class_min(S1, technologists), 0),
               LAMBDA techs :
        Strict(fairness_passes(techs.st, engineers, class_max(S1, engineers),
                               class_min(S1, engineers), 0),
               LAMBDA engs :
        [st |-> engs.st, tech_exit |-> techs.exit, eng_exit |-> engs.exit,
         tech_trail |-> techs.trail, eng_trail |-> engs.trail])))

OptimizeFairness ==
    /\ stage = "optimize_fairness"
    /\ \E r \in {optimize_fairness(Live, PipeTechnologists, PipeEngineers)} :
        /\ Commit(r.st)
        /\ last' = [NoCall EXCEPT !.op = "optimize_fairness",
                                  !.args = <<r.tech_exit, r.eng_exit>>]
    /\ stage' = NextStage(stage)
    /\ UNCHANGED <<date_index, pc, error, start_date, end_date, workers, calls, unchecked, cursor>>

\* generate_schedule returns the schedule
Return ==
    /\ stage = "optimize_fairness_done"
    /\ UNCHANGED <<days, shifts, earnings, days_off>>
    /\ PipeAdvance(NextStage(stage))

NextPipe ==
    \/ PreassignEngineers
    \/ PreassignNightTechnologists
    \/ GenerateRemainingShift
    \/ EnsureWeeklyDaysOff
    \/ BalanceWorkload
    \/ FixScheduleIssues
    \/ ResolveConstraintViolations
    \/ VerifyWeeklyDaysOff
    \/ OptimizeFairness
    \/ Return

SpecPipe == InitPipe /\ [][NextPipe]_vars


(***************************************************************************)
(* predict_assignment_impact step by step: algorithms/common.py            *)
(***************************************************************************)
\* a schedule with one day after LastDay, so that a shift has a future day
InitImpact == InitBuilt(FirstDay, LastDay + 1, TechPool(1) \cup EngPool(1)) /\ date_index = NoIndex

\* the shifts the worker holds when predict_assignment_impact is called
ImpactAssign(w, d, s) ==
    /\ stage = "none"
    /\ last = NoCall
    /\ Len(shifts[w]) < MaxCalls
    /\ Commit(assign_worker(Live, w, d, s).st)
    /\ UNCHANGED <<date_index, pc, error, start_date, end_date, workers, last, calls, unchecked, stage, cursor>>

\* the k-th pass through "for future_days in range(1, 4): for future_shift in
\* SHIFT_TYPES"
future_days_of(k) == ((k - 1) \div Len(SHIFT_TYPES)) + 1
future_shift_of(k) == SHIFT_TYPES[((k - 1) % Len(SHIFT_TYPES)) + 1]

\* the first pass from k on whose future_date is not after schedule.end_date
\* ("continue"), one past the last pass when there is none
next_simulation(date, k) ==
    LET passes == 1..(3 * Len(SHIFT_TYPES))
        inside == {j \in passes : j >= k /\ date + future_days_of(j) <= end_date}
    IN  IF inside = {} THEN 3 * Len(SHIFT_TYPES) + 1 ELSE Min(inside)

\* the call up to the loop: the early return when the worker already has an
\* assignment that day; before holds the live state the call found
PredictBegin(w, d, s) ==
    /\ stage = "none"
    /\ last = NoCall
    /\ last' = [op |-> "predict_assignment_impact", args |-> <<w, d, s>>, before |-> Live,
                original_shifts |-> <<>>, future |-> 0, ret |-> FALSE, raised |-> FALSE]
    /\ stage' = IF has_assignment_that_day(shifts[w], d) THEN "predict_returned"
                ELSE "predict_loop"
    /\ cursor' = next_simulation(d, 1)
    /\ UNCHANGED <<date_index, pc, error, start_date, end_date, workers, days, shifts, earnings, days_off,
                   calls, unchecked>>

\* original_shifts = worker.shifts.copy(); worker.shifts.append((date, shift_type))
SimulateAssignment ==
    /\ stage = "predict_loop"
    /\ cursor <= 3 * Len(SHIFT_TYPES)
    /\ last' = [last EXCEPT !.original_shifts = shifts[last.args[1]]]
    /\ shifts' = [shifts EXCEPT ![last.args[1]] = Append(@, <<last.args[2], last.args[3]>>)]
    /\ stage' = "predict_simulated"
    /\ UNCHANGED <<date_index, pc, error, start_date, end_date, workers, days, earnings, days_off,
                   calls, unchecked, cursor>>

\* can_work_future = strictly_can_work_shift(...); worker.shifts =
\* original_shifts; the impact of a blocked future shift is added
UndoSimulation ==
    /\ stage = "predict_simulated"
    /\ LET worker == last.args[1]
           future_date == last.args[2] + future_days_of(cursor)
           future_shift == future_shift_of(cursor)
           can_work_future == strictly_can_work_shift(Live, worker, future_date, future_shift)
           is_critical_day == weekday(future_date) >= 5 \/ is_colombian_holiday(future_date)
           shift_criticality == IF future_shift = "Noche" THEN 3
                                ELSE IF future_shift = "Tarde" THEN 2 ELSE 1
           future_impact == (4 - future_days_of(cursor)) * shift_criticality
                            * (IF is_critical_day THEN 2 ELSE 1)
       IN  /\ shifts' = [shifts EXCEPT ![worker] = last.original_shifts]
           /\ last' = [last EXCEPT !.future = IF can_work_future THEN @ ELSE @ + future_impact]
    /\ cursor' = next_simulation(last.args[2], cursor + 1)
    /\ stage' = "predict_loop"
    /\ UNCHANGED <<date_index, pc, error, start_date, end_date, workers, days, earnings, days_off,
                   calls, unchecked>>

\* parts 3 and 4 read the live state and copies of it; the call returns
PredictReturn ==
    /\ stage = "predict_loop"
    /\ cursor > 3 * Len(SHIFT_TYPES)
    /\ last' = [last EXCEPT !.ret = predict_assignment_impact(Live, last.args[1], last.args[2],
                                                             last.args[3])]
    /\ stage' = "predict_returned"
    /\ UNCHANGED <<date_index, pc, error, start_date, end_date, workers, days, shifts, earnings, days_off,
                   calls, unchecked, cursor>>

NextImpact ==
    \/ \E w \in TechPool(1), d \in DateInputs, s \in ShiftTypeSet : ImpactAssign(w, d, s)
    \/ \E w \in TechPool(1), d \in DateInputs, s \in ShiftTypeSet : PredictBegin(w, d, s)
    \/ SimulateAssignment
    \/ UndoSimulation
    \/ PredictReturn

SpecImpact == InitImpact /\ [][NextImpact]_vars

(***************************************************************************)
(* A schedule and the date index made of it, both in use                   *)
(***************************************************************************)
\* schedule = Schedule(...); date_index = create_date_index(schedule)
InitIndex ==
    /\ InitBuilt(FirstDay, LastDay, TechPool(1) \cup EngPool(1))
    /\ date_index = create_date_index(days)

\* liberate_day_for_worker with the index it is given: the slot is read and
\* changed in the record the index yields, the replacement is assigned by
\* schedule.assign_worker
liberate_day_indexed(index, S, worker, day, shift_type, technologists, engineers) ==
    IF day \notin DOMAIN index THEN [index |-> index, ret |-> FALSE, raised |-> FALSE, st |-> S]
    ELSE LET day_data == index_get(index, S, day)
             shift_data ==
                 IF worker.is_technologist
                 THEN [day_data[shift_type] EXCEPT !.technologists = RemoveFirst(@, worker.id)]
                 ELSE IF day_data[shift_type].engineer = worker.id
                      THEN [day_data[shift_type] EXCEPT !.engineer = None]
                      ELSE day_data[shift_type]
             index1 == IF index[day].own THEN index
                       ELSE [index EXCEPT ![day].day[shift_type] = shift_data]
             S1 == drop_shift_entries(
                       IF index[day].own
                       THEN [S EXCEPT !.days[index[day].date][shift_type] = shift_data]
                       ELSE S,
                       worker, day, shift_type)
             pool == IF worker.is_technologist THEN technologists ELSE engineers
             replacements == available_replacements(S1, worker, day, shift_type, pool)
             wanted == IF worker.is_technologist
                       THEN Len(shift_data.technologists) < TECHS_PER_SHIFT[shift_type]
                       ELSE TRUE
         IN  IF wanted /\ replacements # <<>>
             THEN [index |-> index1, ret |-> TRUE, raised |-> FALSE,
                   st |-> assign_worker(S1, replacements[1], day, shift_type).st]
             ELSE [index |-> index1, ret |-> FALSE, raised |-> FALSE, st |-> S1]

\* the workers of a class in the order of their ids
ById(pool) == [i \in 1..Cardinality(pool) |-> CHOOSE x \in pool : x.id = i]

LiberateDayForWorker(w, d, s) ==
    /\ pc = "ready"
    /\ LET r == liberate_day_indexed(date_index, Live, w, d, s,
                                     ById({x \in workers : x.is_technologist}),
                                     ById({x \in workers : ~x.is_technologist})) IN
        /\ Commit(r.st)
        /\ date_index' = r.index
        /\ Record(Call("liberate_day_for_worker", <<w, d, s>>, r, Live))
    /\ UNCHANGED <<pc, error, start_date, end_date, workers, unchecked, stage, cursor>>

NextIndex ==
    \/ \E w \in workers, d \in DateInputs, s \in ShiftTypeSet : AssignWorker(w, d, s)
    \/ \E w \in workers, d \in DateInputs, s \in ShiftTypeSet : RemoveWorkerFromShift(w, d, s)
    \/ \E w \in workers, d \in DateInputs, s \in ShiftTypeSet : LiberateDayForWorker(w, d, s)

SpecIndex == InitIndex /\ [][NextIndex]_vars

(***************************************************************************)
(* calculate_compensation on every date of the holiday calendar's year     *)
(***************************************************************************)
\* the dates from 1 January 2025 to the last holiday of the calendar
CompensationDates == 0..Max(COLOMBIAN_HOLIDAYS_2025)

\* a caller is about to ask for the compensation of a shift; nothing else
\* exists yet
InitCompensation ==
    /\ pc = "new"
    /\ error = ""
    /\ start_date = None
    /\ end_date = None
    /\ workers = {}
    /\ days = <<>>
    /\ shifts = [w \in Workers |-> <<>>]
    /\ earnings = [w \in Workers |-> 0]
    /\ days_off = [w \in Workers |-> {}]
    /\ \E date \in CompensationDates, shift_type \in ShiftTypeSet :
           last = [NoCall EXCEPT !.args = <<date, shift_type>>]
    /\ calls = 0
    /\ unchecked = FALSE
    /\ stage = "none"
    /\ cursor = 0
    /\ date_index = NoIndex

CalculateCompensation ==
    /\ calls < MaxCalls
    /\ calls' = calls + 1
    /\ last' = [last EXCEPT !.op = "calculate_compensation",
                            !.ret = calculate_compensation(last.args[1], last.args[2])]
    /\ UNCHANGED <<date_index, pc, error, start_date, end_date, workers, days, shifts, earnings,
                   days_off, unchecked, stage, cursor>>

NextCompensation == CalculateCompensation

SpecCompensation == InitCompensation /\ [][NextCompensation]_vars

(***************************************************************************)
(* The schedule generate_schedule returns                                  *)
(***************************************************************************)
Returned == stage = "returned"

\* the report report_final_schedule_status takes of the schedule before
\* generate_schedule returns it
FinalReport == validate_schedule(Live, start_date, end_date,
                                 PipeTechnologists \o PipeEngineers)

\* the two entries of a worker's shifts are named by a constraint entry of
\* the report
PairFlagged(report, w, first, second) ==
    \E k \in 1..Len(report) :
        /\ report[k].kind \in {"consecutive", "night_to_day", "rest"}
        /\ report[k].worker = w
        /\ {<<report[k].date1, report[k].shift1>>, <<report[k].date2, report[k].shift2>>}
           = {first, second}

PairGap(first, second) ==
    Abs(timeline_position(first[1], first[2]) - timeline_position(second[1], second[2]))

\* C9: in the returned schedule every two shifts of a worker are more than
\* two timeline positions apart, or the pair is in the final violation report
C9_CloseShiftsFlagged ==
    Returned =>
        \A w \in workers : \A i, j \in 1..Len(shifts[w]) :
            i < j => \/ PairGap(shifts[w][i], shifts[w][j]) > 2
                     \/ PairFlagged(FinalReport, w, shifts[w][i], shifts[w][j])

C9_Witness ==
    /\ Returned
    /\ \E w \in workers : \E i, j \in 1..Len(shifts[w]) :
           /\ i < j
           /\ PairGap(shifts[w][i], shifts[w][j]) = 2
           /\ PairFlagged(FinalReport, w, shifts[w][i], shifts[w][j])

\* C10: after the full pipeline no worker has two shifts on the same date
C10_OneShiftPerDate ==
    Returned =>
        \A w \in workers : \A i, j \in 1..Len(shifts[w]) :
            i # j => shifts[w][i][1] # shifts[w][j][1]

\* a returned schedule of several days in which a worker holds several shifts
C10_Witness ==
    /\ Returned
    /\ end_date > start_date
    /\ \E w \in workers : Len(shifts[w]) >= 2

FullyStaffed(date, shift_type) ==
    /\ Len(days[date][shift_type].technologists) = TECHS_PER_SHIFT[shift_type]
    /\ days[date][shift_type].engineer # None

CoverageFlagged(report, date, shift_type) ==
    \E k \in 1..Len(report) :
        /\ report[k].kind \in {"technologists", "engineer"}
        /\ report[k].date1 = date
        /\ report[k].shift1 = shift_type

\* C11: in the returned schedule every slot holds the required number of
\* technologists and an engineer, or the final violation report has a
\* coverage entry for it
C11_StaffedOrReported ==
    Returned =>
        \A date \in start_date..end_date : \A shift_type \in ShiftTypeSet :
            FullyStaffed(date, shift_type)
            \/ CoverageFlagged(FinalReport, date, shift_type)

\* a returned schedule with a fully staffed slot and a reported one
C11_Witness ==
    /\ Returned
    /\ \E date \in start_date..end_date : \E shift_type \in ShiftTypeSet :
           FullyStaffed(date, shift_type) /\ ~CoverageFlagged(FinalReport, date, shift_type)
    /\ \E date \in start_date..end_date : \E shift_type \in ShiftTypeSet :
           ~FullyStaffed(date, shift_type) /\ CoverageFlagged(FinalReport, date, shift_type)
\* the most calendar weeks a period of PipeDays days overlaps
MostWeeks == ((PipeDays + 5) \div 7) + 1

\* the planner has just completed and left the worker without a day off in
\* the effective range of week k
LeftWithoutDayOff(w, k) ==
    /\ stage = "balance_workload"
    /\ k <= Len(weeks(start_date, end_date))
    /\ days_off_in_week(Live, w, weeks(start_date, end_date)[k]) = {}

ReportedUnresolved(w, k) == InSeq(<<w, k>>, last.args)

\* C12: a (worker, week) the Day-Off Planner leaves without a day off in the
\* week's effective range is among the violations the final day-off
\* verification of the run reports, whatever the number of effective days
\* of the week; the planner always completes
C12_DayOffOrReported ==
    \A w \in PipeRoster : \A k \in 1..MostWeeks :
        [](LeftWithoutDayOff(w, k)
           => [](last.op = "verify_weekly_days_off" => ReportedUnresolved(w, k)))

\* the verification reports a pair of a week of two effective days while
\* another worker has a day off in that week
C12_Witness ==
    /\ last.op = "verify_weekly_days_off"
    /\ \E k \in 1..Len(weeks(start_date, end_date)) :
           /\ Cardinality(week_days(weeks(start_date, end_date)[k])) = 2
           /\ \E w \in workers : ReportedUnresolved(w, k)
           /\ \E w \in workers :
                  days_off_in_week(Live, w, weeks(start_date, end_date)[k]) # {}
FairnessDone == stage = "optimize_fairness_done"

\* (max_earnings - min_earnings) / min_earnings <= 3%, of the earnings the
\* workers of the class have when optimize_fairness finishes
GapWithinThreshold(group) ==
    /\ class_min(Live, group) > 0
    /\ (class_max(Live, group) - class_min(Live, group)) * 100 <= 3 * class_min(Live, group)

EndedWithinOrStopped(group, exit) ==
    \/ GapWithinThreshold(group) /\ exit = "within_threshold"
    \/ class_min(Live, group) = 0 /\ exit = "within_threshold"
    \/ exit \in {"plateau", "no_transfers", "max_passes"}

PremiumTransfers == SelectSeq(last.args, LAMBDA t : t.op = "transfer_premium_shift")

\* C14: every premium-shift transfer balance_workload executed went from the
\* richer to the poorer worker, strictly narrowed the gap between the two
\* workers' earnings and did not reverse who is richer, earnings being the
\* sum of the compensation of the shifts each holds
C14_PremiumTransferNarrows ==
    last.op = "balance_workload" =>
        \A i \in 1..Len(PremiumTransfers) :
            LET t == PremiumTransfers[i]
            IN  /\ t.from_before > t.to_before
                /\ t.from_after >= t.to_after
                /\ t.from_after - t.to_after < t.from_before - t.to_before
InPredictCall == stage \in {"predict_loop", "predict_simulated", "predict_returned"}

\* C15: during predict_assignment_impact and after it returned, the workers'
\* shifts, days off and earnings and every slot are what they were before
\* the call
C15_LiveStateUntouched == InPredictCall => Live = last.before
\* C16: for every date of the period the entry of the date index is the day
\* record the Schedule keeps for that date, so that what the index yields and
\* what the Schedule's own lookup yields are the same at every moment, the
\* index never being rebuilt
C16_IndexIsView ==
    \A d \in start_date..end_date :
        /\ d \in DOMAIN date_index
        /\ date_index[d] = Ref(d)
        /\ index_get(date_index, Live, d) = days[d]

\* a worker assigned by assign_worker was taken out of the slot through the
\* index, and the Schedule's slot does not hold the worker
C16_Witness ==
    /\ date_index # NoIndex
    /\ last.op = "liberate_day_for_worker"
    /\ last.follows
    /\ last.args[2] \in start_date..end_date
    /\ ~InSlot(last.args[1], last.args[2], last.args[3])
\* the value the stated precedence gives, in eighths: holiday on a weekend
\* 2.0 * 1.25 or 2.5 * 1.25, holiday on a weekday and weekend 2.0 or 2.5,
\* otherwise 1.0 or 1.5
StatedCompensation(date, shift_type) ==
    LET weekend == weekday(date) \in {5, 6}
        holiday == is_colombian_holiday(date)
        night == shift_type = "Noche"
    IN  IF holiday /\ weekend THEN (IF night THEN 25 ELSE 20)
        ELSE IF holiday \/ weekend THEN (IF night THEN 20 ELSE 16)
        ELSE (IF night THEN 12 ELSE 8)

\* C17: calculate_compensation returns the value of the stated precedence,
\* the same at every call with the same date and shift type
C17_CompensationPrecedence ==
    last.op = "calculate_compensation" =>
        last.ret = StatedCompensation(last.args[1], last.args[2])

\* the compensation of a night shift on a holiday that is a Sunday was asked
\* for a second time
C17_Witness ==
    /\ last.op = "calculate_compensation"
    /\ calls > 1
    /\ is_colombian_holiday(last.args[1])
    /\ weekday(last.args[1]) = 6
    /\ last.args[2] = "Noche"
    /\ last.ret = 25
\* in the shifts held, the worker has the Night shift of day d and the
\* Morning shift of the day after
NightThenMorning(held, w, d) ==
    InSeq(<<d, "Noche">>, held[w]) /\ InSeq(<<d + 1, "Manana">>, held[w])

CanProceed ==
    /\ InSeq(stage, PipelineOrder)
    /\ stage = "generate_remaining_shifts_proactive" =>
           /\ cursor \in 1..Len(remaining_slots(start_date, end_date))
           /\ LET slot == remaining_slots(start_date, end_date)[cursor]
              IN  selected_techs_choices(Live, slot[1], slot[2], PipeTechnologists) # {}

\* the schedule misses coverage, breaks a hard constraint and leaves a
\* worker without a day off in some week
SoftViolationsMet ==
    /\ \E k \in 1..Len(FinalReport) : FinalReport[k].kind \in {"technologists", "engineer"}
    /\ \E k \in 1..Len(FinalReport) :
           FinalReport[k].kind \in {"consecutive", "night_to_day", "rest"}
    /\ \E w \in workers : \E k \in 1..Len(weeks(start_date, end_date)) :
           days_off_in_week(Live, w, weeks(start_date, end_date)[k]) = {}

\* C18: in a run of generate_schedule on a period with start_date <= end_date
\* and non-empty rosters no stage raises or stops, whatever shortfall or
\* violation it meets: the run is always at a stage that can be taken or has
\* returned the Schedule
C18_NoStageStops == pc = "ready" /\ error = "" /\ CanProceed

\* a run returned a schedule that has all three kinds of violation
C18_Witness == Returned /\ pc = "ready" /\ SoftViolationsMet

(***************************************************************************)
(* The order of the stages                                                 *)
(***************************************************************************)
\* the component a call of generate_schedule belongs to: 1 Generator,
\* 2 Day-Off Planner, 3 Balancer, 4 Repair Engine, 5 Balancer fairness
\* pass. The final verification of the days off changes nothing and is
\* counted with the repair it follows, the final report and the return with
\* the fairness pass
Component(s) ==
    IF s \in {"preassign_engineers", "preassign_night_technologists",
              "generate_remaining_shifts_proactive"} THEN 1
    ELSE IF s = "ensure_weekly_days_off" THEN 2
    ELSE IF s = "balance_workload" THEN 3
    ELSE IF s \in {"fix_schedule_issues", "resolve_constraint_violations",
                   "verify_weekly_days_off"} THEN 4
    ELSE 5

\* the index holds the records of the schedule, one per date
SharedIndex ==
    /\ DOMAIN date_index = DOMAIN days
    /\ \A d \in DOMAIN date_index : date_index[d] = Ref(d)

\* C20: every step of generate_schedule stays in its component or enters the
\* next one of Generator, Day-Off Planner, Balancer, Repair Engine, fairness
\* pass, and none runs twice; all steps work on the one Schedule and the one
\* Date Index of its records, which no step replaces
C20_StagesInOrder ==
    [][/\ Component(stage') \in {Component(stage), Component(stage) + 1}
       /\ StageRank(stage') >= StageRank(stage)
       /\ stage' = stage => stage = "generate_remaining_shifts_proactive" /\ cursor' > cursor
       /\ SharedIndex /\ SharedIndex'
       /\ date_index' = date_index]_vars

\* a run that went through all stages and returned, with a day off the
\* planner gave still in place and the index still on the schedule's records
C20_Witness ==
    /\ Returned
    /\ SharedIndex
    /\ \E w \in workers : days_off[w] # {}
    /\ last.op = "optimize_fairness"

(***************************************************************************)
(* The constraint checks on their own: core/constraints.py                 *)
(***************************************************************************)
\* one technologist, who comes to hold any list of up to MaxCalls shifts of
\* the period, in any order
InitConstraints ==
    InitBuilt(FirstDay, LastDay + 1, TechPool(1)) /\ date_index = NoIndex

\* a check called on the worker for a proposed (date, shift_type): it reads
\* worker.shifts and changes nothing
CheckAdequateRest(w, d, s) ==
    /\ pc = "ready"
    /\ last' = [NoCall EXCEPT !.op = "check_adequate_rest", !.args = <<w, d, s>>,
                              !.ret = check_adequate_rest(Live, w, d, s)]
    /\ UNCHANGED <<days, shifts, earnings, days_off, calls, date_index, pc, error,
                   start_date, end_date, workers, unchecked, stage, cursor>>

CheckNightToDayTransition(w, d, s) ==
    /\ pc = "ready"
    /\ last' = [NoCall EXCEPT !.op = "check_night_to_day_transition",
                              !.args = <<w, d, s>>,
                              !.ret = check_night_to_day_transition(Live, w, d, s)]
    /\ UNCHANGED <<days, shifts, earnings, days_off, calls, date_index, pc, error,
                   start_date, end_date, workers, unchecked, stage, cursor>>

\* the dates a check is asked about: the period, the day before and the day after
CheckDates == (FirstDay - 1)..(LastDay + 2)

NextConstraints ==
    \/ \E w \in workers, d \in FirstDay..(LastDay + 1), s \in ShiftTypeSet :
          AssignWorker(w, d, s)
    \/ \E w \in workers, d \in CheckDates, s \in ShiftTypeSet : CheckAdequateRest(w, d, s)
    \/ \E w \in workers, d \in CheckDates, s \in ShiftTypeSet :
          CheckNightToDayTransition(w, d, s)

SpecConstraints == InitConstraints /\ [][NextConstraints]_vars

\* position = day_offset * 3 + shift_index, Morning 0 / Afternoon 1 / Night 2
StatedPosition(date, shift_type) ==
    date * 3 + (CASE shift_type = "Manana" -> 0
                  [] shift_type = "Tarde" -> 1
                  [] shift_type = "Noche" -> 2)

\* the distance on the timeline between the proposed shift and entry i
StatedDistance(w, d, s, i) ==
    Abs(StatedPosition(d, s) - StatedPosition(shifts[w][i][1], shifts[w][i][2]))

\* C21: check_adequate_rest rejects a proposed (date, shift_type) exactly
\* when the worker holds a shift at a timeline distance of 1 or 2 from it
C21_RestRule ==
    last.op = "check_adequate_rest" =>
        LET w == last.args[1]
            d == last.args[2]
            s == last.args[3]
        IN  ~last.ret <=> \E i \in 1..Len(shifts[w]) :
                              0 < StatedDistance(w, d, s, i) /\ StatedDistance(w, d, s, i) <= 2

\* a proposal rejected because of a shift two positions after it, on the
\* next day, and no shift of the worker is nearer
C21_Witness ==
    /\ last.op = "check_adequate_rest"
    /\ ~last.ret
    /\ LET w == last.args[1]
           d == last.args[2]
           s == last.args[3]
       IN  /\ \E i \in 1..Len(shifts[w]) :
                  /\ shifts[w][i][1] = d + 1
                  /\ StatedDistance(w, d, s, i) = 2
           /\ \A i \in 1..Len(shifts[w]) : StatedDistance(w, d, s, i) >= 2

\* C22: check_night_to_day_transition reports a violation exactly when the
\* shift is a Morning and the worker holds a Night on the date before
C22_NightToDayRule ==
    last.op = "check_night_to_day_transition" =>
        LET w == last.args[1]
            d == last.args[2]
            s == last.args[3]
        IN  last.ret <=> /\ s = "Manana"
                         /\ \E i \in 1..Len(shifts[w]) :
                                shifts[w][i] = <<d - 1, "Noche">>

\* the pair of the example: Night on the first day, Morning asked for the second
C22_Witness ==
    /\ last.op = "check_night_to_day_transition"
    /\ last.ret
    /\ last.args[2] = FirstDay + 1
    /\ last.args[3] = "Manana"
    /\ InSeq(<<FirstDay, "Noche">>, shifts[last.args[1]])

(***************************************************************************)
(* The planner and its verifier                                            *)
(***************************************************************************)
PlannerDone == stage = "balance_workload"

\* the (worker, week number) pairs verify_weekly_days_off would report of the
\* schedule as it is
VerifierMissing(w) ==
    LET r == verify_weekly_days_off(Live, start_date, end_date, PipeTechnologists,
                                    PipeEngineers)
    IN  {k \in 1..MostWeeks : InSeq(<<w, k>>, r.violations)}

\* C23: the planner and the verifier take the same weeks with the same days
\* inside the period, whatever their number, and of the schedule the
\* planner leaves, the weeks its own final verification counts as missing a
\* day off of a worker are those the verifier reports
C23_SameWeeksRequired ==
    /\ Len(weeks(start_date, end_date)) = Len(verify_weeks(start_date, end_date))
    /\ \A k \in 1..Len(weeks(start_date, end_date)) :
           week_days(weeks(start_date, end_date)[k]) = verify_weeks(start_date, end_date)[k]
    /\ PlannerDone =>
           \A w \in PipeRoster :
               weeks_missing(Live, w, start_date, end_date) = VerifierMissing(w)

\* a period whose first week has exactly 4 days inside it: the planner has
\* given a worker a day off in that week and left the worker without one in
\* the second week, which the verifier reports
C23_Witness ==
    /\ PlannerDone
    /\ Len(weeks(start_date, end_date)) = 2
    /\ Cardinality(week_days(weeks(start_date, end_date)[1])) = 4
    /\ \E w \in PipeRoster :
           /\ VerifierMissing(w) = {2}
           /\ weeks_missing(Live, w, start_date, end_date) = {2}
           /\ days_off[w] \cap week_days(weeks(start_date, end_date)[1]) # {}

(***************************************************************************)
(* Slots and worker records between the stages                             *)
(***************************************************************************)
\* a stage of the pipeline has just ended: generation, day-off planning,
\* balancing, coverage repair, constraint repair, fairness optimisation
StageEnded ==
    stage \in {"ensure_weekly_days_off", "balance_workload", "fix_schedule_issues",
               "resolve_constraint_violations", "verify_weekly_days_off",
               "optimize_fairness_done"}

\* every id in a slot has the shifts entry, once, and every shifts entry is
\* of a slot of the period that holds the id
MirrorConsistent ==
    /\ \A w \in workers : \A d \in start_date..end_date : \A s \in ShiftTypeSet :
           InSlot(w, d, s) <=> HasShift(w, d, s)
    /\ \A w \in workers : \A i \in 1..Len(shifts[w]) :
           /\ shifts[w][i][1] \in start_date..end_date
           /\ CountShift(shifts[w], shifts[w][i][1], shifts[w][i][2]) = 1
    /\ \A d \in start_date..end_date : \A s \in ShiftTypeSet :
           \A i, j \in 1..Len(days[d][s].technologists) :
               i # j => days[d][s].technologists[i] # days[d][s].technologists[j]

\* C24: at the end of every stage of the pipeline the slots and the workers'
\* shifts mirror each other
C24_MirrorAfterStage == StageEnded => MirrorConsistent

\* the planner has taken shifts away by hand and the mirror holds
C24_Witness ==
    /\ stage = "balance_workload"
    /\ last.op = "ensure_weekly_days_off"
    /\ \E w \in workers : \E i \in 1..Len(last.args[1].shifts[w]) :
           ~InSeq(last.args[1].shifts[w][i], shifts[w])
    /\ MirrorConsistent

(***************************************************************************)
(* An engineer assigned to a slot another engineer holds                   *)
(***************************************************************************)
\* the last call was a successful assign_worker of an engineer to a slot whose
\* engineer was another one
ReplacedEngineer ==
    /\ last.op = "assign"
    /\ last.ret
    /\ ~last.args[1].is_technologist
    /\ last.pre.slot.engineer # None
    /\ last.pre.slot.engineer # last.args[1].id

\* C25: when assign_worker places engineer e2 in a slot held by another
\* engineer e1, the slot's engineer becomes e2, e2 gains the entry, and e1's
\* shifts no longer hold the entry nor e1's earnings its compensation
C25_ReplacedEngineerReleased ==
    ReplacedEngineer =>
        LET e2 == last.args[1]
            e1 == Engineer(last.pre.slot.engineer)
            d == last.args[2]
            s == last.args[3]
        IN  /\ days[d][s].engineer = e2.id
            /\ HasShift(e2, d, s)
            /\ ~HasShift(e1, d, s)
            /\ earnings[e1] = SumCompensation(shifts[e1])

(***************************************************************************)
(* Days off and shifts after the planner                                   *)
(***************************************************************************)
\* the planner has returned
AfterPlanning == StageRank(stage) > StageRank("ensure_weekly_days_off")

ShiftOnDayOff(w) == \E i \in 1..Len(shifts[w]) : shifts[w][i][1] \in days_off[w]

\* C26: from the end of day-off planning to the end of the pipeline no
\* worker holds a shift on a date in its days_off
C26_NoShiftOnDayOff == AfterPlanning => \A w \in workers : ~ShiftOnDayOff(w)

\* coverage repair has assigned a worker on a date that was a day off of
\* that worker when the repair began, and the day off is gone
C26_Witness ==
    /\ last.op = "fix_schedule_issues"
    /\ \E w \in workers : \E d \in last.args.days_off[w] :
           /\ has_assignment_that_day(shifts[w], d)
           /\ ~has_assignment_that_day(last.args.shifts[w], d)
           /\ d \notin days_off[w]
    /\ \A w \in workers : ~ShiftOnDayOff(w)

(***************************************************************************)
(* Inadequate rest in constraint repair                                    *)
(***************************************************************************)
\* the shifts worker w held when resolve_constraint_violations began, in the
\* order validate_schedule compares them
HeldAtRepair(w) == sorted_shifts([shifts |-> last.args], w)

\* entries i and i + 1 of HeldAtRepair(w) were reported as an inadequate rest
RestReported(w, i) ==
    LET held == HeldAtRepair(w)
    IN  rest_flagged(held[i][1], held[i][2], held[i + 1][1], held[i + 1][2])

\* C27: for every inadequate-rest violation validate_schedule reported of a
\* worker when constraint repair began, the worker is, when it ends, out of
\* the later of the two shifts, in the slot and in its own shifts
C27_LaterShiftRemoved ==
    last.op = "resolve_constraint_violations" =>
        \A w \in workers : \A i \in 1..(Len(HeldAtRepair(w)) - 1) :
            RestReported(w, i) =>
                LET later == HeldAtRepair(w)[i + 1]
                IN  /\ ~InSeq(later, shifts[w])
                    /\ ~InSlot(w, later[1], later[2])

(***************************************************************************)
(* replace_worker on its own                                               *)
(***************************************************************************)
\* the engineers and a period of one day more than NumDays, so that a shift
\* has a following day
InitReplace == InitBuilt(FirstDay, LastDay + 1, EngPool(NumEngs)) /\ date_index = NoIndex

\* the list the repair passes as available_workers for an engineer
ReplaceEngineers == [i \in 1..NumEngs |-> Engineer(i)]

\* replace_worker(schedule, date, shift_type, removed_worker, available_workers)
\* called as the repair calls it, for a slot the removed worker is not in; the
\* record of the call holds what the workers held when it began
ReplaceWorker(removed, d, s) ==
    /\ pc = "ready"
    /\ calls < MaxCalls
    /\ ~InSlot(removed, d, s)
    /\ \E r \in {replace_worker(Live, d, s, removed, ReplaceEngineers)} :
          /\ Commit(r.st)
          /\ last' = [op |-> "replace_worker", args |-> <<removed, d, s>>, ret |-> r.ret,
                      raised |-> FALSE, follows |-> FALSE, before |-> PhaseRecord(Live)]
    /\ calls' = calls + 1
    /\ UNCHANGED <<date_index, pc, error, start_date, end_date, workers, unchecked, stage, cursor>>

\* the callers' check before an assignment: no shift of the worker that day
NextReplace ==
    \/ \E w \in workers, d \in start_date..end_date, s \in ShiftTypeSet :
          ~has_assignment_that_day(shifts[w], d) /\ AssignWorker(w, d, s)
    \/ \E w \in workers, d \in start_date..end_date, s \in ShiftTypeSet : ReplaceWorker(w, d, s)

SpecReplace == InitReplace /\ [][NextReplace]_vars

\* worker w is the replacement the last call of replace_worker assigned
IsReplacement(w) ==
    /\ last.op = "replace_worker"
    /\ InSeq(<<last.args[2], last.args[3]>>, shifts[w])
    /\ ~InSeq(<<last.args[2], last.args[3]>>, last.before.shifts[w])

\* C28: a replacement replace_worker assigned, under the strict checks or
\* under the fallback, is a worker of the removed worker's class other than
\* the removed one, with no shift and no day off on that date before the
\* assignment, and after it the new shift is in no Night-then-next-day-Morning
\* pair and in no adjacent same-day pair of that worker
C28_ReplacementIsSafe ==
    \A w \in workers :
        IsReplacement(w) =>
            LET removed == last.args[1]
                d == last.args[2]
                s == last.args[3]
            IN  /\ w.is_technologist = removed.is_technologist
                /\ w # removed
                /\ ~has_assignment_that_day(last.before.shifts[w], d)
                /\ d \notin last.before.days_off[w]
                /\ ~(s = "Manana" /\ InSeq(<<d - 1, "Noche">>, shifts[w]))
                /\ ~(s = "Noche" /\ InSeq(<<d + 1, "Manana">>, shifts[w]))
                /\ ~\E i \in 1..Len(shifts[w]) :
                       /\ shifts[w][i][1] = d
                       /\ Abs(shift_indices[s] - shift_indices[shifts[w][i][2]]) = 1

(***************************************************************************)
(* The phases of the day-off planner                                       *)
(***************************************************************************)
\* the planner has just returned; last.args holds what the workers held
\* before it, after its first phase and after its second phase
PlannerReturned == stage = "balance_workload" /\ last.op = "ensure_weekly_days_off"

\* the dates of the Night shifts worker w held in the week when the planner began
NightsInWeek(w, week) ==
    {d \in week_days(week) : InSeq(<<d, "Noche">>, last.args[1].shifts[w])}

\* the days of the week the first phase marked as days off of worker w
MarkedAfterNight(w, week) ==
    (last.args[2].days_off[w] \ last.args[1].days_off[w]) \cap week_days(week)

\* C29: in the first phase of the planner, for a worker and a week without a
\* day off in which the worker held Night shifts, the day marked is the day
\* after the latest Night shift of the week, and it is marked only if the
\* worker holds no shift that day and the day is within the week's range
C29_DayAfterLatestNight ==
    PlannerReturned =>
        \A w \in workers : \A k \in 1..Len(weeks(start_date, end_date)) :
            LET week == weeks(start_date, end_date)[k]
            IN  (last.args[1].days_off[w] \cap week_days(week) = {}
                 /\ NightsInWeek(w, week) # {})
                => \A d \in MarkedAfterNight(w, week) :
                       /\ d = Max(NightsInWeek(w, week)) + 1
                       /\ ~has_assignment_that_day(last.args[1].shifts[w], d)
                       /\ d \in week_days(week)

\* worker w held no shift on some day of the week, after the first phase of
\* the planner and after the second
ShiftFreeDay(w, week) ==
    \E d \in week_days(week) :
        /\ ~has_assignment_that_day(last.args[2].shifts[w], d)
        /\ ~has_assignment_that_day(last.args[3].shifts[w], d)

\* C30: after the second phase of the planner every worker that lacked a day
\* off in a week after the first phase and has a shift-free day in the week
\* has a day off in that week, in every week of the period and for
\* technologists and engineers alike
C30_DayOffInEveryWeek ==
    PlannerReturned =>
        \A w \in workers : \A k \in 1..Len(weeks(start_date, end_date)) :
            LET week == weeks(start_date, end_date)[k]
            IN  (last.args[2].days_off[w] \cap week_days(week) = {} /\ ShiftFreeDay(w, week))
                => last.args[3].days_off[w] \cap week_days(week) # {}

\* after the second phase of the planner worker w had no day off in the week
\* and held a shift in it
LackingWithShift(w, week) ==
    /\ last.args[3].days_off[w] \cap week_days(week) = {}
    /\ \E i \in 1..Len(last.args[3].shifts[w]) : last.args[3].shifts[w][i][1] \in week_days(week)

\* a shift worker w held in the week after the second phase is no longer
\* held and its date is a day off of w
VacatedInWeek(w, week) ==
    \E i \in 1..Len(last.args[3].shifts[w]) :
        LET e == last.args[3].shifts[w][i]
        IN  /\ e[1] \in week_days(week)
            /\ ~InSeq(e, shifts[w])
            /\ e[1] \in days_off[w]

\* C31: for every (worker, week) left without a day off by the phases before
\* it, in which the worker holds a shift, the emergency phase takes the worker
\* out of a shift of that week and marks its date as a day off, so that the
\* pair has a day off when the planner returns
C31_EmergencyServesEveryWeek ==
    PlannerReturned =>
        \A w \in workers : \A k \in 1..Len(weeks(start_date, end_date)) :
            LET week == weeks(start_date, end_date)[k]
            IN  LackingWithShift(w, week) => VacatedInWeek(w, week)

(***************************************************************************)
(* The balancer's transfers on their own                                   *)
(***************************************************************************)
\* two technologists and an engineer, or two engineers, and a period of one
\* day more than NumDays
InitBalancer ==
    /\ \E roster \in {TechPool(2) \cup EngPool(1), EngPool(2)} :
          InitBuilt(FirstDay, LastDay + 1, roster)
    /\ date_index = NoIndex

\* the balancer pairs workers of one class
SameClass(a, b) == a # b /\ a.is_technologist = b.is_technologist

\* the schedule is being made and no transfer was asked for yet
Making == pc = "ready" /\ last.op = "none"

\* an assignment as the generation stages make it: the worker holds no shift
\* that day and an engineer is given a slot without an engineer
BalancerAssign(w, d, s) ==
    /\ Making
    /\ calls < MaxCalls
    /\ ~has_assignment_that_day(shifts[w], d)
    /\ w.is_technologist \/ days[d][s].engineer = None
    /\ Commit(assign_worker(Live, w, d, s).st)
    /\ calls' = calls + 1
    /\ UNCHANGED <<date_index, pc, error, start_date, end_date, workers, last, unchecked, stage, cursor>>

\* worker.add_day_off(date) as the planner calls it, on a day without a shift
BalancerDayOff(w, d) ==
    /\ Making
    /\ calls < MaxCalls
    /\ ~has_assignment_that_day(shifts[w], d)
    /\ d \notin days_off[w]
    /\ Commit(add_day_off(Live, w, d))
    /\ calls' = calls + 1
    /\ UNCHANGED <<date_index, pc, error, start_date, end_date, workers, last, unchecked, stage, cursor>>

\* the record of a transfer: what was asked, what it returned, the schedule
\* before it
TransferCall(op, args, r) ==
    /\ Commit(r.st)
    /\ last' = [op |-> op, args |-> args, ret |-> r.ret, raised |-> FALSE,
                follows |-> FALSE, pre |-> Live]
    /\ UNCHANGED <<date_index, pc, error, start_date, end_date, workers, calls, unchecked, stage, cursor>>

TransferShiftSafely(from_worker, to_worker) ==
    /\ Making
    /\ SameClass(from_worker, to_worker)
    /\ \E r \in {transfer_shift_safely(Live, from_worker, to_worker)} :
          TransferCall("transfer_shift_safely", <<from_worker, to_worker>>, r)

ExchangeShiftsByType(worker1, worker2, type1, type2) ==
    /\ Making
    /\ SameClass(worker1, worker2)
    /\ type1 # type2
    /\ \E r \in {exchange_shifts_by_type(Live, worker1, worker2, type1, type2)} :
          TransferCall("exchange_shifts_by_type", <<worker1, worker2, type1, type2>>, r)

TransferPremiumShift(from_worker, to_worker) ==
    /\ Making
    /\ SameClass(from_worker, to_worker)
    /\ \E r \in {transfer_premium_shift(Live, from_worker, to_worker)} :
          TransferCall("transfer_premium_shift", <<from_worker, to_worker>>, r)

NextBalancer ==
    \/ \E w \in workers, d \in start_date..end_date, s \in ShiftTypeSet : BalancerAssign(w, d, s)
    \/ \E w \in workers, d \in start_date..end_date : BalancerDayOff(w, d)
    \/ \E from_worker \in workers, to_worker \in workers :
          TransferShiftSafely(from_worker, to_worker)
    \/ \E worker1 \in workers, worker2 \in workers, type1 \in ShiftTypeSet, type2 \in ShiftTypeSet :
          ExchangeShiftsByType(worker1, worker2, type1, type2)
    \/ \E from_worker \in workers, to_worker \in workers :
          TransferPremiumShift(from_worker, to_worker)

SpecBalancer == InitBalancer /\ [][NextBalancer]_vars

(***************************************************************************)
(* A total-count transfer                                                  *)
(***************************************************************************)
\* a call of transfer_shift_safely that returned True
SafelyTransferred == last.op = "transfer_shift_safely" /\ last.ret

\* the entries the worker holds now and did not hold before the call
Gained(w) == {shifts[w][i] : i \in 1..Len(shifts[w])} \ {last.pre.shifts[w][i] : i \in 1..Len(last.pre.shifts[w])}

\* the entries the worker held before the call and no longer holds
Lost(w) == {last.pre.shifts[w][i] : i \in 1..Len(last.pre.shifts[w])} \ {shifts[w][i] : i \in 1..Len(shifts[w])}

\* before the call the receiver had no shift and no day off on the date and
\* passed the three checks for the shift
Receivable(to_worker, date, shift_type) ==
    /\ \A i \in 1..Len(last.pre.shifts[to_worker]) : last.pre.shifts[to_worker][i][1] # date
    /\ date \notin last.pre.days_off[to_worker]
    /\ ~check_night_to_day_transition(last.pre, to_worker, date, shift_type)
    /\ ~check_consecutive_shifts(last.pre, to_worker, date, shift_type)
    /\ check_adequate_rest(last.pre, to_worker, date, shift_type)

\* C32: a total-count transfer gives the receiver a shift only if the receiver
\* had no shift and no day off on that date and passes the night-to-day,
\* consecutive and adequate-rest checks for it, and the shift given is the
\* most recent of the donor's shifts the receiver can take.
C32_TransferOnlyIfSafe ==
    SafelyTransferred =>
        \A e \in Gained(last.args[2]) :
            /\ Receivable(last.args[2], e[1], e[2])
            /\ InSeq(e, last.pre.shifts[last.args[1]])
            /\ \A i \in 1..Len(last.pre.shifts[last.args[1]]) :
                  last.pre.shifts[last.args[1]][i][1] > e[1]
                  => ~Receivable(last.args[2], last.pre.shifts[last.args[1]][i][1],
                                 last.pre.shifts[last.args[1]][i][2])

\* a transfer that passed over a more recent shift of the donor
C32_Witness ==
    /\ SafelyTransferred
    /\ \E e \in Gained(last.args[2]) :
          \E i \in 1..Len(last.pre.shifts[last.args[1]]) :
              last.pre.shifts[last.args[1]][i][1] > e[1]

(***************************************************************************)
(* What a balancer transfer changes                                        *)
(***************************************************************************)
\* a call of transfer_shift_safely or transfer_premium_shift
BalancerTransfer == last.op \in {"transfer_shift_safely", "transfer_premium_shift"}

\* the slot has as many technologists as before the call and an engineer
\* exactly if it had one
SameHeadcount(d, s) ==
    /\ Len(days[d][s].technologists) = Len(last.pre.days[d][s].technologists)
    /\ (days[d][s].engineer = None) <=> (last.pre.days[d][s].engineer = None)

\* the assignment (date, shift_type) went from the donor to the receiver and
\* nothing else changed
MovedOnly(from_worker, to_worker, e) ==
    /\ Lost(from_worker) = {e}
    /\ Len(shifts[from_worker]) = Len(last.pre.shifts[from_worker]) - 1
    /\ Gained(from_worker) = {}
    /\ Gained(to_worker) = {e}
    /\ Len(shifts[to_worker]) = Len(last.pre.shifts[to_worker]) + 1
    /\ Lost(to_worker) = {}
    /\ ~InSlot(from_worker, e[1], e[2])
    /\ InSlot(to_worker, e[1], e[2])
    /\ SameHeadcount(e[1], e[2])
    /\ \A w \in workers \ {from_worker, to_worker} : shifts[w] = last.pre.shifts[w]
    /\ \A d \in start_date..end_date, s \in ShiftTypeSet :
          <<d, s>> # e => days[d][s] = last.pre.days[d][s]

\* C35: a successful transfer_shift_safely or transfer_premium_shift moves
\* exactly one assignment: the donor loses one (date, shift_type), the receiver
\* gains the same one, the slot keeps its technologist count and its engineer
\* occupancy, and no other worker's shifts and no other slot change; an
\* unsuccessful transfer changes nothing.
C35_TransferMovesOneAssignment ==
    BalancerTransfer =>
        IF last.ret
        THEN \E e \in Lost(last.args[1]) : MovedOnly(last.args[1], last.args[2], e)
        ELSE Live = last.pre

\* a premium transfer between technologists out of a slot that has an engineer
C35_Witness ==
    /\ last.op = "transfer_premium_shift"
    /\ last.ret
    /\ \E e \in Lost(last.args[1]) : days[e[1]][e[2]].engineer # None

\* a transfer that found nothing to move
C35_WitnessRefused ==
    /\ BalancerTransfer
    /\ ~last.ret
    /\ last.pre.shifts[last.args[1]] # <<>>

(***************************************************************************)
(* A type-mix exchange                                                     *)
(***************************************************************************)
\* worker A (the first argument) gave up exactly the entry a and took b, and
\* worker B gave up exactly b and took a
Swapped(A, B, a, b) ==
    /\ Lost(A) = {a} /\ Gained(A) = {b}
    /\ Lost(B) = {b} /\ Gained(B) = {a}
    /\ Len(shifts[A]) = Len(last.pre.shifts[A])
    /\ Len(shifts[B]) = Len(last.pre.shifts[B])
    /\ SameHeadcount(a[1], a[2])
    /\ SameHeadcount(b[1], b[2])

\* C34: when exchange_shifts_by_type(A, B, deficit type, surplus type) returns
\* True, A has given up exactly one shift of the surplus type and holds the
\* shift of the deficit type that B held, B holds A's former shift, and both
\* slots have the headcount they had; when it returns False no slot and no
\* worker's shifts have changed.
C34_ExchangeIsTwoForTwo ==
    last.op = "exchange_shifts_by_type" =>
        IF last.ret
        THEN \E a \in Lost(last.args[1]), b \in Lost(last.args[2]) :
                /\ a[2] = last.args[4]
                /\ b[2] = last.args[3]
                /\ Swapped(last.args[1], last.args[2], a, b)
        ELSE days = last.pre.days /\ shifts = last.pre.shifts

\* an exchange that was made
C34_Witness ==
    /\ last.op = "exchange_shifts_by_type"
    /\ last.ret
    /\ \E a \in Lost(last.args[1]), b \in Lost(last.args[2]) : a[1] # b[1]

(***************************************************************************)
(* A premium transfer and the receiver's neighbouring shifts               *)
(***************************************************************************)
\* the transfers the balancer made, in the order it made them
BalancerLog == IF last.op = "balance_workload" THEN last.args ELSE <<>>

\* the entries the receiver of the transfer holds after it and not before
Received(t) ==
    {t.post.shifts[t.to_worker][i] : i \in 1..Len(t.post.shifts[t.to_worker])}
    \ {t.pre.shifts[t.to_worker][i] : i \in 1..Len(t.pre.shifts[t.to_worker])}

\* after the transfer the receiver holds a Night and the Morning of the next
\* date, one of them being e
NightBeforeMorning(t, e) ==
    \/ e[2] = "Noche" /\ InSeq(<<e[1] + 1, "Manana">>, t.post.shifts[t.to_worker])
    \/ e[2] = "Manana" /\ InSeq(<<e[1] - 1, "Noche">>, t.post.shifts[t.to_worker])

\* after the transfer the receiver holds another shift on the date of e
TwoOnOneDate(t, e) ==
    \E i \in 1..Len(t.post.shifts[t.to_worker]) :
        /\ t.post.shifts[t.to_worker][i][1] = e[1]
        /\ t.post.shifts[t.to_worker][i] # e

\* C36: a premium-shift transfer never leaves the receiver with a Night on one
\* date followed by a Morning on the next date, nor with two shifts on one
\* date, where one of the shifts is the transferred one.
C36_PremiumReceiverKeepsRest ==
    \A k \in 1..Len(BalancerLog) :
        BalancerLog[k].op = "transfer_premium_shift" =>
            \A e \in Received(BalancerLog[k]) :
                ~NightBeforeMorning(BalancerLog[k], e) /\ ~TwoOnOneDate(BalancerLog[k], e)

(***************************************************************************)
(* The total-count step of balance_worker_group on a rota of engineers     *)
(***************************************************************************)
\* the schedule after Schedule(start, end, roster)
EmptySchedule(start, end, roster) ==
    [days |-> ScheduleInit(start, end, roster).days,
     shifts |-> [w \in Workers |-> <<>>],
     earnings |-> [w \in Workers |-> 0],
     days_off |-> [w \in Workers |-> {}],
     raised |-> FALSE]

\* a rota: the first engineers of the list hold the shifts of the first day,
\* one each in the order of SHIFT_TYPES; later[d] holds the Morning of the
\* later day d, if anyone; the engineers of off have the first day off
Rota(start, end, first, later, off) ==
    LET S0 == EmptySchedule(start, end, PipeRoster)
        S1 == FoldLeft(LAMBDA S, w : add_day_off(S, w, start),
                       S0, SelectSeq(PipeEngineers, LAMBDA w : w \in off))
        S2 == FoldLeft(LAMBDA S, i : assign_worker(S, PipeEngineers[i], start, SHIFT_TYPES[i]).st,
                       S1, [i \in 1..first |-> i])
    IN  FoldLeft(LAMBDA S, d : IF later[d] = None THEN S
                               ELSE assign_worker(S, PipeEngineers[later[d]], d, "Manana").st,
                 S2, [k \in 1..(end - start) |-> start + k])

\* a rota over a period of three days more than NumDays, with at most one
\* engineer on a day off
InitTotals ==
    \E first \in 0..Len(SHIFT_TYPES) :
    \E later \in [(FirstDay + 1)..(LastDay + 3) -> {None} \cup (1..PipeEngs)] :
    \E off \in {{}} \cup {{PipeEngineers[i]} : i \in (first + 1)..PipeEngs} :
        /\ pc = "ready"
        /\ error = ""
        /\ start_date = FirstDay
        /\ end_date = LastDay + 3
        /\ workers = PipeRoster
        /\ days = Rota(FirstDay, LastDay + 3, first, later, off).days
        /\ shifts = Rota(FirstDay, LastDay + 3, first, later, off).shifts
        /\ earnings = Rota(FirstDay, LastDay + 3, first, later, off).earnings
        /\ days_off = Rota(FirstDay, LastDay + 3, first, later, off).days_off
        /\ last = NoCall
        /\ calls = 0
        /\ unchecked = FALSE
        /\ stage = "none"
        /\ cursor = 0
        /\ date_index = NoIndex

\* the total-count step applied to the engineers
BalanceTotalShifts ==
    /\ Making
    /\ \E r \in {balance_total_shifts([st |-> Live, log |-> <<>>], PipeEngineers)} :
          /\ Commit(r.st)
          /\ last' = [op |-> "balance_total_shifts", args |-> r.log, ret |-> r.log # <<>>,
                      raised |-> FALSE, follows |-> FALSE, pre |-> Live]
    /\ UNCHANGED <<date_index, pc, error, start_date, end_date, workers, calls, unchecked, stage, cursor>>

SpecTotals == InitTotals /\ [][BalanceTotalShifts]_vars

\* max total shifts minus min total shifts among the engineers
ShiftSpread(held) ==
    Max({Len(held[PipeEngineers[i]]) : i \in 1..PipeEngs})
    - Min({Len(held[PipeEngineers[i]]) : i \in 1..PipeEngs})

\* C33: after the total-count step of balance_worker_group, (max total shifts
\* - min total shifts) within the class is no greater than it was before the
\* step.
C33_TotalCountNeverWidens ==
    last.op = "balance_total_shifts" => ShiftSpread(shifts) <= ShiftSpread(last.pre.shifts)

(***************************************************************************)
(* optimize_fairness on its own                                            *)
(***************************************************************************)
FairTechnologists == PipeTechnologists
FairEngineers == SubSeq(PipeEngineers, 1, Len(PipeTechnologists))
FairRoster == {FairTechnologists[i] : i \in 1..Len(FairTechnologists)} \cup {FairEngineers[i] : i \in 1..Len(FairEngineers)}

\* the last day of a period of twice PipeDays days
FairEnd == FirstDay + 2 * PipeDays - 1

\* the first worker of the class holds the Nights of the first a days and the
\* second worker the Mornings of the last b days
NightsAndMornings(group, a, b) ==
    LET S0 == EmptySchedule(FirstDay, FairEnd, FairRoster)
        S1 == FoldLeft(LAMBDA S, k : assign_worker(S, group[1], FirstDay + k - 1, "Noche").st,
                       S0, [k \in 1..a |-> k])
    IN  FoldLeft(LAMBDA S, k : assign_worker(S, group[2], FairEnd - k + 1, "Manana").st,
                 S1, [k \in 1..b |-> k])

InitFairness ==
    \E group \in {FairTechnologists, FairEngineers} :
    \E a \in 0..(2 * PipeDays), b \in 0..(2 * PipeDays) :
        /\ pc = "ready"
        /\ error = ""
        /\ start_date = FirstDay
        /\ end_date = FairEnd
        /\ workers = FairRoster
        /\ days = NightsAndMornings(group, a, b).days
        /\ shifts = NightsAndMornings(group, a, b).shifts
        /\ earnings = NightsAndMornings(group, a, b).earnings
        /\ days_off = NightsAndMornings(group, a, b).days_off
        /\ last = NoCall
        /\ calls = 0
        /\ unchecked = FALSE
        /\ stage = "none"
        /\ cursor = 0
        /\ date_index = NoIndex

\* optimize_fairness(schedule, technologists, engineers)
OptimizeFairnessCall ==
    /\ Making
    /\ \E r \in {optimize_fairness(Live, FairTechnologists, FairEngineers)} :
          /\ Commit(r.st)
          /\ last' = [op |-> "optimize_fairness", args |-> <<r.tech_exit, r.eng_exit>>,
                      ret |-> FALSE, raised |-> FALSE, follows |-> FALSE,
                      trail |-> <<r.tech_trail, r.eng_trail>>, pre |-> Live]
    /\ UNCHANGED <<date_index, pc, error, start_date, end_date, workers, calls, unchecked, stage, cursor>>

SpecFairness == InitFairness /\ [][OptimizeFairnessCall]_vars

\* (max - min) / min * 100 > 3.0, the gap being 0 when min is 0
GapAbove(max_earnings, min_earnings) ==
    min_earnings > 0 /\ (max_earnings - min_earnings) * 100 > 3 * min_earnings

\* the gap before the pass minus the gap after it is under tenths/10 percent
ImprovementUnder(rec, tenths) ==
    IF rec.new_min > 0
    THEN 1000 * ((rec.old_max - rec.old_min) * rec.new_min
                 - (rec.new_max - rec.new_min) * rec.old_min)
         < tenths * rec.old_min * rec.new_min
    ELSE 1000 * (rec.old_max - rec.old_min) < tenths * rec.old_min

\* a pass after which the loop of the class must end
EndsLoop(rec, tenths) ==
    \/ rec.transfers = 0
    \/ ImprovementUnder(rec, tenths)
    \/ ~GapAbove(rec.new_max, rec.new_min)

\* the earnings the class had when optimize_fairness began, recomputed from
\* the shifts
MaxBefore(group) == Max({SumCompensation(last.pre.shifts[group[i]]) : i \in 1..Len(group)})
MinBefore(group) == Min({SumCompensation(last.pre.shifts[group[i]]) : i \in 1..Len(group)})

\* the passes of one class: at most 3, the first only if the gap is above 3%,
\* every pass but the last one made a transfer, improved the gap by the limit
\* or more and left it above 3%, and the last one ends the loop or is the third
PassesAsStated(group, trail, tenths) ==
    /\ Len(trail) <= 3
    /\ Len(trail) = 0 <=> ~GapAbove(MaxBefore(group), MinBefore(group))
    /\ \A k \in 1..Len(trail) :
          IF k < Len(trail) THEN ~EndsLoop(trail[k], tenths)
          ELSE EndsLoop(trail[k], tenths) \/ k = 3

\* C37: optimize_fairness returns, having run at most 3 passes per class; the
\* passes of a class end as soon as the relative gap is at most 3%, a pass
\* makes no transfer, or the improvement of a pass is under 0.2%
\* (technologists) / 0.3% (engineers).
C37_AtMostThreePasses ==
    last.op = "optimize_fairness" =>
        /\ PassesAsStated(FairTechnologists, last.trail[1], 2)
        /\ PassesAsStated(FairEngineers, last.trail[2], 3)

\* a class whose third pass made a transfer and left the gap above 3%
C37_Witness ==
    /\ last.op = "optimize_fairness"
    /\ \E c \in 1..2 :
          /\ Len(last.trail[c]) = 3
          /\ ~EndsLoop(last.trail[c][3], IF c = 1 THEN 2 ELSE 3)

(***************************************************************************)
(* The verdict of predict_assignment_impact                                *)
(***************************************************************************)
\* predict_assignment_impact has returned
ImpactReturned == stage = "predict_returned" /\ last.op = "predict_assignment_impact"

\* the candidate held a shift on the date when the call began
HeldShiftThatDate ==
    \E i \in 1..Len(last.before.shifts[last.args[1]]) :
        last.before.shifts[last.args[1]][i][1] = last.args[2]

\* C38: the candidate is marked assignable if and only if its total impact
\* score is below 20, or below 40 when the shift type is Night; a candidate
\* that already has a shift on that date is never assignable, whatever its
\* other penalties.
C38_AssignableIffBelowThreshold ==
    ImpactReturned =>
        IF HeldShiftThatDate THEN last.ret = FALSE
        ELSE last.ret.can_assign
             <=> \/ last.ret.impact_score < 20
                 \/ last.ret.impact_score < 40 /\ last.args[3] = "Noche"

\* a Night accepted with a score of 20 or more
C38_Witness ==
    /\ ImpactReturned
    /\ ~HeldShiftThatDate
    /\ last.args[3] = "Noche"
    /\ last.ret.impact_score >= 20
    /\ last.ret.can_assign

(***************************************************************************)
(* force_assign_with_impact on its own                                     *)
(***************************************************************************)
\* force_assign_with_impact(schedule, date, shift_type, engineers, False) on a
\* slot without an engineer
ForceAssignWithImpact(d, s) ==
    /\ Making
    /\ days[d][s].engineer = None
    /\ \E r \in {force_assign_with_impact(Live, d, s, ReplaceEngineers, FALSE)} :
          /\ Commit(r)
          /\ last' = [op |-> "force_assign_with_impact", args |-> <<d, s>>, ret |-> FALSE,
                      raised |-> r.raised, follows |-> FALSE, pre |-> Live,
                      worker_impacts |-> sorted_worker_impacts(Live, d, s, ReplaceEngineers, FALSE)]
    /\ UNCHANGED <<date_index, pc, error, start_date, end_date, workers, calls, unchecked, stage, cursor>>

NextForce ==
    \/ \E w \in workers, d \in start_date..end_date, s \in ShiftTypeSet : BalancerAssign(w, d, s)
    \/ \E w \in workers, d \in start_date..end_date : BalancerDayOff(w, d)
    \/ \E d \in start_date..end_date, s \in ShiftTypeSet : ForceAssignWithImpact(d, s)

SpecForce == InitReplace /\ [][NextForce]_vars

(***************************************************************************)
(* The score and the fate of a candidate that holds another shift          *)
(***************************************************************************)
ForceReturned == last.op = "force_assign_with_impact"

\* the shift the candidate held on the date when the call began, "" if none
OtherShift(w) == other_shift_on(last.pre, w, last.args[1])

\* Morning < Afternoon < Night
LowerPriority(other, target) ==
    \/ other = "Manana" /\ target \in {"Tarde", "Noche"}
    \/ other = "Tarde" /\ target = "Noche"

\* the penalties of the candidate other than the one for another shift
OtherPenalties(w) ==
    (IF last.args[1] \in last.pre.days_off[w] THEN 40 ELSE 0)
    + (IF check_night_to_day_transition(last.pre, w, last.args[1], last.args[2]) THEN 30 ELSE 0)
    + (IF check_consecutive_shifts(last.pre, w, last.args[1], last.args[2]) THEN 20 ELSE 0)
    + (IF ~check_adequate_rest(last.pre, w, last.args[1], last.args[2]) THEN 15 ELSE 0)

\* C39: a candidate that already has another shift that day receives +50, and
\* the 10-point reduction is applied if and only if the other shift has lower
\* priority than the target shift (Morning < Afternoon < Night); a candidate
\* whose other shift is not lower-priority is never assigned.
C39_ReductionIffLowerPriority ==
    ForceReturned =>
        \A k \in 1..Len(last.worker_impacts) :
            LET w == last.worker_impacts[k].worker
            IN  OtherShift(w) # "" =>
                    /\ last.worker_impacts[k].impact
                       = OtherPenalties(w) + 50
                         - (IF LowerPriority(OtherShift(w), last.args[2]) THEN 10 ELSE 0)
                    /\ ~LowerPriority(OtherShift(w), last.args[2])
                       => ~InSlot(w, last.args[1], last.args[2])

(***************************************************************************)
(* Coverage repair of a slot with a technologist too many                  *)
(***************************************************************************)
SurplusTechnologists == [i \in 1..WideTechs |-> Technologist(i)]

\* the last day of a period of four days more than NumDays
SurplusEnd == LastDay + 4

\* every technologist holds the Night of the first day; on each later day the
\* first two hold the Morning, the Night or nothing, as extra tells
Surplus(extra) ==
    LET S0 == EmptySchedule(FirstDay, SurplusEnd, TechPool(WideTechs))
        S1 == FoldLeft(LAMBDA S, w : assign_worker(S, w, FirstDay, "Noche").st,
                       S0, SurplusTechnologists)
        later == Flatten([i \in 1..2 |-> [k \in 1..(SurplusEnd - FirstDay) |-> <<i, FirstDay + k>>]])
    IN  FoldLeft(LAMBDA S, p : IF extra[p] = "" THEN S
                               ELSE assign_worker(S, SurplusTechnologists[p[1]], p[2], extra[p]).st,
                 S1, later)

InitSurplus ==
    \E extra \in [(1..2) \X ((FirstDay + 1)..SurplusEnd) -> {"", "Manana", "Noche"}] :
        /\ pc = "ready"
        /\ error = ""
        /\ start_date = FirstDay
        /\ end_date = SurplusEnd
        /\ workers = TechPool(WideTechs)
        /\ days = Surplus(extra).days
        /\ shifts = Surplus(extra).shifts
        /\ earnings = Surplus(extra).earnings
        /\ days_off = Surplus(extra).days_off
        /\ last = NoCall
        /\ calls = 0
        /\ unchecked = FALSE
        /\ stage = "none"
        /\ cursor = 0
        /\ date_index = NoIndex

\* correct_technologist_issue for a slot the report found over-staffed
CorrectTechnologistIssue(d, s) ==
    /\ Making
    /\ Len(days[d][s].technologists) > TECHS_PER_SHIFT[s]
    /\ \E r \in {correct_technologist_issue(Live, d, s, Len(days[d][s].technologists), TECHS_PER_SHIFT[s], SurplusTechnologists)} :
          /\ Commit(r)
          /\ last' = [op |-> "correct_technologist_issue", args |-> <<d, s>>, ret |-> FALSE,
                      raised |-> FALSE, follows |-> FALSE, pre |-> Live]
    /\ UNCHANGED <<date_index, pc, error, start_date, end_date, workers, calls, unchecked, stage, cursor>>

NextSurplus == \E d \in start_date..end_date, s \in ShiftTypeSet : CorrectTechnologistIssue(d, s)

SpecSurplus == InitSurplus /\ [][NextSurplus]_vars

\* the technologists the slot held before the repair
HeldSlot(d, s) == {w \in workers : InSeq(w.id, last.pre.days[d][s].technologists)}

\* those of them the slot no longer holds
Removed(d, s) == {w \in HeldSlot(d, s) : ~InSeq(w.id, days[d][s].technologists)}

\* r goes before k: higher earnings, or equal earnings and at least as many
\* shifts
GoesFirst(r, k) ==
    \/ last.pre.earnings[r] > last.pre.earnings[k]
    \/ /\ last.pre.earnings[r] = last.pre.earnings[k]
       /\ Len(last.pre.shifts[r]) >= Len(last.pre.shifts[k])

\* C40: from a slot holding more technologists than required the repair
\* removes exactly (assigned - required) technologists, from the slot and from
\* their shifts, the highest-earning first and among equal earnings those with
\* the most total shifts first, and leaves the slot at the required count.
C40_SurplusRemovedRichestFirst ==
    last.op = "correct_technologist_issue" =>
        LET d == last.args[1]
            s == last.args[2]
        IN  /\ Len(days[d][s].technologists) = TECHS_PER_SHIFT[s]
            /\ Cardinality(Removed(d, s)) = Cardinality(HeldSlot(d, s)) - TECHS_PER_SHIFT[s]
            /\ \A r \in Removed(d, s) : ~InSeq(<<d, s>>, shifts[r])
            /\ \A r \in Removed(d, s), k \in HeldSlot(d, s) \ Removed(d, s) : GoesFirst(r, k)

====
